---------------------------- MODULE Spec2Model ----------------------------
(***************************************************************************)
(* State-machine model of sdwan-health-monitor.                            *)
(*                                                                         *)
(*   - AlertManager (src/lib/alerter.py): threshold evaluation, the        *)
(*     active and history collections, acknowledgement.                    *)
(*   - MetricsCollector (src/lib/collector.py): the collector's two caches *)
(*     guarded by one shared _last_fetch timestamp.                        *)
(*   - SDWANMonitor (src/sdwan_monitor.py): the keyed TTL cache            *)
(*     (_get_cached) as used by the publisher thread and the query         *)
(*     handlers.                                                           *)
(*                                                                         *)
(* Each component has its own specification over the shared variables;     *)
(* the variables of the other components stay at their initial values.     *)
(***************************************************************************)
EXTENDS Integers, Sequences, FiniteSets, TLC

VARIABLES
    \* ---- AlertManager -------------------------------------------------
    thresholds,     \* self.thresholds: metric -> (sub-key -> number), partial
    notify_config,  \* self.notify_config: channel -> its settings
    alerts,         \* every Alert object constructed so far (object identity = index)
    active_alerts,  \* self.active_alerts: list of references into alerts
    alert_history,  \* self.alert_history: list of references into alerts
    aclock,         \* datetime.now() as seen by the Alert constructor
    alast,          \* the last AlertManager call: its arguments and what it returned
    \* ---- MetricsCollector --------------------------------------------
    cache_ttl,      \* self.cache_ttl
    device_cache,   \* self._device_cache
    tunnel_cache,   \* self._tunnel_cache
    last_fetch,     \* self._last_fetch
    ctime,          \* time.time() as read by the collector
    capi,           \* the controller behind self.api: reachable or not, and its data
    cseen,          \* per resource, when the collector last called the api for it
                    \* and when the api last answered such a call
    clast,          \* the MetricsCollector call the last step made, if it made one:
                    \* its arguments and what it returned
    \* ---- SDWANMonitor ------------------------------------------------
    connected,      \* self.connected
    mcache,         \* self._cache: key -> list, a dict that starts empty
    mcache_time,    \* self._cache_time: key -> timestamp
    mnow,           \* datetime.now().timestamp() as read by the monitor
    mapi,           \* the controller behind self.api: reachable or not
    th,             \* per thread, where it is in its handler or loop body, the
                    \* accessors still to call and the locals obtained so far
    mlast,          \* what the last step answered or emitted, if it did
    \* ---- classifier and fabric summary ------------------------------
    config,         \* the thresholds of the global Config
    fraw,           \* what the controller serves: raw devices and raw alarms
    fcache,         \* the device and alarm lists the monitor has cached
    fcalls,         \* get_fabric_health calls made so far
    flast           \* the last get_fabric_health call: the summary it returned
                    \* and the health_status values it read

avars == <<thresholds, notify_config, alerts, active_alerts, alert_history, aclock,
           alast>>

cvars == <<cache_ttl, device_cache, tunnel_cache, last_fetch, ctime, capi,
           cseen, clast>>

mvars == <<connected, mcache, mcache_time, mnow, mapi, th, mlast>>

fvars == <<config, fraw, fcache, fcalls, flast>>

vars == <<avars, cvars, mvars, fvars>>

-----------------------------------------------------------------------------
(* Bounds of the model *)

\* Alert objects constructed in one behaviour.
MaxAlerts == 2

\* Clock ticks of one behaviour of the collector.
MaxCollectorTicks == 2

\* Seconds between two readings of the collector's clock that differ.
CollectorTickSeconds == 30

\* time.time() when the process starts, in seconds.
Epoch == 1000

\* Clock ticks of one behaviour of the monitor.
MaxMonitorTicks == 3

\* get_fabric_health calls of one behaviour of the summary.
MaxFabricCalls == 2

\* Seconds between two readings of the monitor's clock that differ.
TickSeconds == 20

-----------------------------------------------------------------------------
(* Numbers of the program *)

\* SDWANMonitor._cache_ttl
MonitorCacheTtl == 30

\* the ttl get_alarms passes to _get_cached
AlarmsTtl == 15

\* Config.refresh_interval
RefreshInterval == 60

\* time.sleep(30) of background_monitor after an exception
ErrorSleep == 30

-----------------------------------------------------------------------------
(* Generic helpers *)

\* dict.get(key, default) on a dict modelled as a function
Get(d, k, default) == IF k \in DOMAIN d THEN d[k] ELSE default

\* elements of a sequence
Range(s) == {s[i] : i \in DOMAIN s}

\* the empty dict {}
EmptyDict == [k \in {} |-> 0]

-----------------------------------------------------------------------------
(* AlertManager: inputs *)

\* Threshold tables an AlertManager is constructed with (the constructor
\* takes any dict).  The first is the table of tests/test_monitor.py.  The
\* second is a table the constructor accepts as well: its cpu warning lies
\* above its cpu critical value, its memory entry has no critical sub-key
\* and it has no tunnel_latency entry at all.
TestThresholds ==
    [cpu            |-> [warning |-> 70,  critical |-> 90],
     memory         |-> [warning |-> 75,  critical |-> 90],
     tunnel_loss    |-> [warning |-> 1,   critical |-> 5],
     tunnel_latency |-> [warning |-> 100, critical |-> 300]]

OddThresholds ==
    [cpu            |-> [warning |-> 70,  critical |-> 20],
     memory         |-> [warning |-> 75],
     tunnel_loss    |-> [warning |-> 1,   critical |-> 5]]

ThresholdTables == {TestThresholds, OddThresholds}

\* DeviceMetrics objects handed to evaluate_device: reachable devices with
\* every cpu and memory value, the others with an idle or a saturated cpu
DeviceInputs ==
    {d \in [hostname : {"router-01"}, cpu : {30, 70, 95}, memory : {40, 75, 95},
            reachability : {"reachable", "unreachable", "unknown"}] :
        \/ d.reachability = "reachable"
        \/ d.memory = 40 /\ d.cpu \in {30, 95}}

\* TunnelMetrics objects handed to evaluate_tunnel
TunnelInputs ==
    [source_ip : {"10.0.0.1"}, dest_ip : {"10.0.0.2"},
     loss : {0, 2, 8}, latency : {50, 300}]

-----------------------------------------------------------------------------
(* AlertManager: evaluate_device *)

\* Alert(device=..., severity=..., metric=..., value=..., threshold=...)
Alert(device, severity, metric, value, threshold, ts) ==
    [device |-> device, severity |-> severity, metric |-> metric,
     value |-> value, threshold |-> threshold, timestamp |-> ts,
     acknowledged |-> FALSE]

\* thresholds.get(metric, {})
ThreshOf(thr, metric) == Get(thr, metric, EmptyDict)

\* The if/elif of one device metric: which tier fires, if any.
Tier(value, t, defCritical, defWarning) ==
    IF value >= Get(t, "critical", defCritical) THEN "critical"
    ELSE IF value >= Get(t, "warning", defWarning) THEN "warning"
    ELSE "none"

\* The branch taken reads t[tier] without a default: KeyError when absent.
TierRaises(value, t, defCritical, defWarning) ==
    LET tier == Tier(value, t, defCritical, defWarning)
    IN  tier # "none" /\ tier \notin DOMAIN t

\* TierAlerts with "if" where the source has "elif": a value at or above the
\* critical threshold gets the warning alert as well.
TierAlertsBothTiers(host, metric, value, t, defCritical, defWarning, ts) ==
    LET crit == Get(t, "critical", defCritical)
        warn == Get(t, "warning", defWarning)
    IN  (IF value >= crit
         THEN <<Alert(host, "critical", metric, value, crit, ts)>> ELSE <<>>)
        \o (IF value >= warn
            THEN <<Alert(host, "warning", metric, value, warn, ts)>> ELSE <<>>)

\* TierAlerts whose warning comparison is turned round (value <= threshold).
TierAlertsSwapped(host, metric, value, t, defCritical, defWarning, ts) ==
    LET crit == Get(t, "critical", defCritical)
        warn == Get(t, "warning", defWarning)
    IN  IF value >= crit THEN <<Alert(host, "critical", metric, value, crit, ts)>>
        ELSE IF value <= warn THEN <<Alert(host, "warning", metric, value, warn, ts)>>
        ELSE <<>>

\* The alerts one two-tier check appends to new_alerts.
TierAlerts(host, metric, value, t, defCritical, defWarning, ts) ==
    LET tier == Tier(value, t, defCritical, defWarning)
    IN  IF tier = "none" THEN <<>>
        ELSE <<Alert(host, tier, metric, value, t[tier], ts)>>

CpuCheck(thr, d, ts) ==
    TierAlerts(d.hostname, "cpu", d.cpu, ThreshOf(thr, "cpu"), 90, 70, ts)

MemoryCheck(thr, d, ts) ==
    TierAlerts(d.hostname, "memory", d.memory, ThreshOf(thr, "memory"), 90, 75, ts)

\* ReachabilityCheck that tests == "unreachable" instead of != "reachable".
ReachabilityCheckOnlyUnreachable(d, ts) ==
    IF d.reachability = "unreachable"
    THEN <<Alert(d.hostname, "critical", "reachability", 0, 1, ts)>>
    ELSE <<>>

ReachabilityCheck(d, ts) ==
    IF d.reachability # "reachable"
    THEN <<Alert(d.hostname, "critical", "reachability", 0, 1, ts)>>
    ELSE <<>>

\* evaluate_device raises KeyError while building new_alerts
DeviceRaises(thr, d) ==
    \/ TierRaises(d.cpu, ThreshOf(thr, "cpu"), 90, 70)
    \/ TierRaises(d.memory, ThreshOf(thr, "memory"), 90, 75)

\* new_alerts of an evaluate_device that leaves out an alert when the
\* active collection holds one of the same device, severity, metric and value
DeviceAlertsDeduplicated(thr, d, ts) ==
    LET Known(a) == \E i \in DOMAIN active_alerts :
                        [alerts[active_alerts[i]] EXCEPT !.timestamp = ts,
                                                         !.acknowledged = FALSE] = a
        Fresh(a) == ~Known(a)
    IN  SelectSeq(CpuCheck(thr, d, ts) \o MemoryCheck(thr, d, ts)
                      \o ReachabilityCheck(d, ts), Fresh)

\* new_alerts of evaluate_device, in construction order
DeviceAlerts(thr, d, ts) ==
    CpuCheck(thr, d, ts) \o MemoryCheck(thr, d, ts) \o ReachabilityCheck(d, ts)

-----------------------------------------------------------------------------
(* AlertManager: evaluate_tunnel *)

TunnelName(t) == <<t.source_ip, "->", t.dest_ip>>

LossCheck(thr, t, ts) ==
    IF t.loss >= Get(ThreshOf(thr, "tunnel_loss"), "critical", 5)
    THEN <<Alert(TunnelName(t), "critical", "tunnel_loss", t.loss, 0, ts)>>
    ELSE <<>>

LatencyCheck(thr, t, ts) ==
    IF t.latency >= Get(ThreshOf(thr, "tunnel_latency"), "critical", 300)
    THEN <<Alert(TunnelName(t), "critical", "tunnel_latency", t.latency, 0, ts)>>
    ELSE <<>>

\* new_alerts of evaluate_tunnel, in construction order
TunnelAlerts(thr, t, ts) == LossCheck(thr, t, ts) \o LatencyCheck(thr, t, ts)

-----------------------------------------------------------------------------
(* AlertManager: state and operations *)

\* references of the objects appended by a call that constructs n alerts
NewRefs(n) == [i \in 1..n |-> Len(alerts) + i]

NoCall == [op |-> "none"]

\* AlertManager(thresholds): notify_config is None, stored as {}
AlertInit ==
    /\ thresholds \in ThresholdTables
    /\ notify_config = EmptyDict
    /\ alerts = <<>>
    /\ active_alerts = <<>>
    /\ alert_history = <<>>
    /\ aclock = 0
    /\ alast = NoCall

\* notify_config with a slack section: switched off, switched on with its
\* webhook_url, switched on without one
SlackConfigs ==
    {("slack" :> (("enabled" :> FALSE) @@ ("webhook_url" :> "https://hooks/T1"))),
     ("slack" :> (("enabled" :> TRUE) @@ ("webhook_url" :> "https://hooks/T1"))),
     ("slack" :> (("enabled" :> TRUE) @@ ("channel" :> "#noc")))}

\* AlertManager(thresholds, notify_config)
NotifyInit ==
    /\ thresholds \in ThresholdTables
    /\ notify_config \in SlackConfigs
    /\ alerts = <<>>
    /\ active_alerts = <<>>
    /\ alert_history = <<>>
    /\ aclock = 0
    /\ alast = NoCall

\* what requests.post may do with one payload: return a response, or raise
\* (timeout, connection refused, invalid URL)
PostOutcomes == {"returned", "raised"}

\* _send_notification(alert), post: what requests.post does if it is called.
\* "skipped": slack is not enabled; "sent": the post returned; "failed": the
\* try block raised (no webhook_url, or the post raised) and the except
\* clause logged it.  Nothing is raised to the caller.
SendNotification(post) ==
    LET slack_cfg == Get(notify_config, "slack", EmptyDict)
    IN  IF ~Get(slack_cfg, "enabled", FALSE) THEN "skipped"
        ELSE IF "webhook_url" \notin DOMAIN slack_cfg THEN "failed"
        ELSE IF post = "raised" THEN "failed"
        ELSE "sent"

\* the results the notifications of n alerts may have, one after another
Notifications(n) ==
    {[i \in 1..n |-> SendNotification(posts[i])] : posts \in [1..n -> PostOutcomes]}

\* the for loop over new_alerts with the given notification results: the
\* alerts it appended before it ended, and whether it ended by raising
AppendLoopStopsAtFailure(refs, notified) ==
    LET failed == {i \in DOMAIN notified : notified[i] = "failed"}
        first  == CHOOSE i \in failed : \A j \in failed : i <= j
    IN  IF failed = {} THEN [appended |-> refs, raised |-> FALSE]
        ELSE [appended |-> SubSeq(refs, 1, first), raised |-> TRUE]

AppendLoop(refs, notified) == [appended |-> refs, raised |-> FALSE]

\* datetime.now() after a call that constructed n Alert objects.  Only the
\* order of timestamps is ever read (get_active_alerts sorts by it): the
\* constructions of one call share one reading and time passes between
\* two calls.
ClockAfter(n) == IF n > 0 THEN aclock + 1 ELSE aclock

\* evaluate_device(device)
EvaluateDevice(d) ==
    /\ UNCHANGED <<cvars, mvars, fvars>>
    /\ IF DeviceRaises(thresholds, d)
       THEN /\ alast' = [op |-> "evaluate_device", arg |-> d, raised |-> TRUE,
                         returned |-> <<>>, notified |-> <<>>]
            /\ UNCHANGED <<thresholds, notify_config, alerts, active_alerts,
                           alert_history, aclock>>
       ELSE LET new == DeviceAlerts(thresholds, d, aclock)
                refs == NewRefs(Len(new))
            IN  /\ Len(alerts) + Len(new) <= MaxAlerts
                /\ \E notified \in Notifications(Len(new)) :
                     LET loop == AppendLoop(refs, notified)
                     IN  /\ alerts' = alerts \o new
                         /\ active_alerts' = active_alerts \o loop.appended
                         /\ alert_history' = alert_history \o loop.appended
                         /\ alast' = [op |-> "evaluate_device", arg |-> d,
                                      raised |-> loop.raised,
                                      returned |-> IF loop.raised THEN <<>> ELSE refs,
                                      notified |-> SubSeq(notified, 1, Len(loop.appended))]
                /\ aclock' = ClockAfter(Len(new))
                /\ UNCHANGED <<thresholds, notify_config>>

\* evaluate_tunnel(tunnel)
EvaluateTunnel(t) ==
    /\ UNCHANGED <<cvars, mvars, fvars>>
    /\ LET new == TunnelAlerts(thresholds, t, aclock)
           refs == NewRefs(Len(new))
       IN  /\ Len(alerts) + Len(new) <= MaxAlerts
           /\ \E notified \in Notifications(Len(new)) :
                LET loop == AppendLoop(refs, notified)
                IN  /\ alerts' = alerts \o new
                    /\ active_alerts' = active_alerts \o loop.appended
                    /\ alast' = [op |-> "evaluate_tunnel", arg |-> t,
                                 raised |-> loop.raised,
                                 returned |-> IF loop.raised THEN <<>> ELSE refs,
                                 notified |-> SubSeq(notified, 1, Len(loop.appended))]
           /\ aclock' = ClockAfter(Len(new))
           /\ UNCHANGED <<thresholds, notify_config, alert_history>>

\* acknowledge_alert(index), index counted from 0
AcknowledgeAlert(index) ==
    /\ UNCHANGED <<cvars, mvars, fvars>>
    /\ IF 0 <= index /\ index < Len(active_alerts)
       THEN alerts' = [alerts EXCEPT ![active_alerts[index + 1]].acknowledged = TRUE]
       ELSE UNCHANGED alerts
    /\ alast' = [op |-> "acknowledge_alert", arg |-> index, raised |-> FALSE,
                 returned |-> <<>>]
    /\ UNCHANGED <<thresholds, notify_config, active_alerts, alert_history, aclock>>

\* a list comprehension that keeps every element
KeepAll(refs, heap) == refs

\* [a for a in refs if not a.acknowledged]
RECURSIVE NotAcknowledged(_, _)
NotAcknowledged(refs, heap) ==
    IF refs = <<>> THEN <<>>
    ELSE IF ~heap[Head(refs)].acknowledged
         THEN <<Head(refs)>> \o NotAcknowledged(Tail(refs), heap)
         ELSE NotAcknowledged(Tail(refs), heap)

\* clear_acknowledged that rebuilds the history as well
ClearAcknowledgedBoth ==
    /\ UNCHANGED <<cvars, mvars, fvars>>
    /\ active_alerts' = NotAcknowledged(active_alerts, alerts)
    /\ alert_history' = NotAcknowledged(alert_history, alerts)
    /\ alast' = [op |-> "clear_acknowledged", arg |-> 0, raised |-> FALSE,
                 returned |-> <<>>]
    /\ UNCHANGED <<thresholds, notify_config, alerts, aclock>>

\* clear_acknowledged()
ClearAcknowledged ==
    /\ UNCHANGED <<cvars, mvars, fvars>>
    /\ active_alerts' = NotAcknowledged(active_alerts, alerts)
    /\ alast' = [op |-> "clear_acknowledged", arg |-> 0, raised |-> FALSE,
                 returned |-> <<>>]
    /\ UNCHANGED <<thresholds, notify_config, alerts, alert_history, aclock>>

\* the list with r put behind every reference whose alert is not older:
\* descending by timestamp, equal timestamps in their order of arrival
RECURSIVE InsertDescending(_, _, _)
InsertDescending(sorted, r, heap) ==
    IF sorted = <<>> THEN <<r>>
    ELSE IF heap[Head(sorted)].timestamp >= heap[r].timestamp
         THEN <<Head(sorted)>> \o InsertDescending(Tail(sorted), r, heap)
         ELSE <<r>> \o sorted

\* the list with r put behind every reference whose alert is not newer
RECURSIVE InsertAscending(_, _, _)
InsertAscending(sorted, r, heap) ==
    IF sorted = <<>> THEN <<r>>
    ELSE IF heap[Head(sorted)].timestamp <= heap[r].timestamp
         THEN <<Head(sorted)>> \o InsertAscending(Tail(sorted), r, heap)
         ELSE <<r>> \o sorted

\* sorted(refs, key=lambda a: a.timestamp), without reverse=True
RECURSIVE SortedAscending(_, _)
SortedAscending(refs, heap) ==
    IF refs = <<>> THEN <<>>
    ELSE InsertAscending(SortedAscending(SubSeq(refs, 1, Len(refs) - 1), heap),
                         refs[Len(refs)], heap)

\* sorted(refs, key=lambda a: a.timestamp, reverse=True): a stable sort
RECURSIVE SortedByTimestamp(_, _)
SortedByTimestamp(refs, heap) ==
    IF refs = <<>> THEN <<>>
    ELSE InsertDescending(SortedByTimestamp(SubSeq(refs, 1, Len(refs) - 1), heap),
                          refs[Len(refs)], heap)

\* s[:limit]
SlicePrefix(s, limit) ==
    IF limit >= Len(s) THEN s
    ELSE IF limit >= 0 THEN SubSeq(s, 1, limit)
    ELSE IF Len(s) + limit > 0 THEN SubSeq(s, 1, Len(s) + limit)
    ELSE <<>>

\* Alert.to_dict(): a new dict of the fields, the timestamp in its
\* isoformat(), a string and no longer a datetime
ToDict(a) == [a EXCEPT !.timestamp = <<"isoformat", a.timestamp>>]

\* The limits get_active_alerts is called with: none of the alerts, one,
\* and the default of 50.
Limits == {0, 1, 50}

\* get_active_alerts(limit); picked: the alert objects behind the dicts
GetActiveAlerts(limit) ==
    /\ UNCHANGED <<cvars, mvars, fvars>>
    /\ LET picked == SlicePrefix(SortedByTimestamp(active_alerts, alerts), limit)
       IN  alast' = [op |-> "get_active_alerts", arg |-> limit, raised |-> FALSE,
                     returned |-> [i \in DOMAIN picked |-> ToDict(alerts[picked[i]])],
                     picked |-> picked]
    /\ UNCHANGED <<thresholds, notify_config, alerts, active_alerts, alert_history,
                   aclock>>

AlertNext ==
    \/ \E d \in DeviceInputs : EvaluateDevice(d)
    \/ \E t \in TunnelInputs : EvaluateTunnel(t)
    \/ \E i \in -1..Len(active_alerts) : AcknowledgeAlert(i)
    \/ ClearAcknowledged
    \/ \E limit \in Limits : GetActiveAlerts(limit)

\* the evaluations of a manager that notifies
NotifyNext ==
    \/ \E d \in DeviceInputs : EvaluateDevice(d)
    \/ \E t \in TunnelInputs : EvaluateTunnel(t)

-----------------------------------------------------------------------------
(* MetricsCollector: the api client and its data *)

\* Raw records of /device/monitor as the controller serves them.
RawRouter1 ==
    ("host-name" :> "r1") @@ ("system-ip" :> "10.0.0.1")
    @@ ("reachability" :> "reachable") @@ ("cpu-load" :> 10) @@ ("mem-usage" :> 20)

RawRouter2 ==
    ("host-name" :> "r2") @@ ("reachability" :> "unreachable")
    @@ ("cpu-load" :> 0) @@ ("mem-usage" :> 0)

\* A record whose cpu-load is not a number, and one that sends it as a
\* string and has no reachability attribute.
RawRouter3 ==
    ("host-name" :> "r3") @@ ("reachability" :> "reachable")
    @@ ("cpu-load" :> "n/a") @@ ("mem-usage" :> 30)

RawRouter4 ==
    ("host-name" :> "r4") @@ ("cpu-load" :> "45") @@ ("mem-usage" :> 30)

\* Raw records of tunnel/stats.
RawTunnel1 ==
    ("local-system-ip" :> "10.0.0.1") @@ ("remote-system-ip" :> "10.0.0.2")
    @@ ("state" :> "up") @@ ("latency" :> 150) @@ ("loss-percentage" :> 2)
    @@ ("tx-kbps" :> 2000)

\* Lists the controller may hold at a moment.
DeviceFeeds == {<<>>, <<RawRouter1, RawRouter2>>, <<RawRouter4, RawRouter1, RawRouter3, RawRouter2>>}
TunnelFeeds == {<<>>, <<RawTunnel1>>}

\* vManageAPI._get: the parsed body, or None on any failure
ApiGet(api, endpoint) ==
    IF api.up THEN [none |-> FALSE, data |-> api[endpoint]] ELSE [none |-> TRUE]

\* data.get("data", []) if data else []
DataOrEmpty(data) == IF data.none THEN <<>> ELSE data.data

\* vManageAPI.get_device_status
ApiGetDeviceStatus(api) == DataOrEmpty(ApiGet(api, "devices"))

\* vManageAPI.get_tunnel_stats
ApiGetTunnelStats(api) == DataOrEmpty(ApiGet(api, "tunnels"))

-----------------------------------------------------------------------------
(* MetricsCollector: normalisation *)

\* isinstance(x, str), for the strings a numeric attribute may hold
IsStr(x) == ToString(x) \in {ToString(s) : s \in {"45", "n/a"}}

\* float(x) raises ValueError: x is a string that is no decimal numeral
FloatRaises(x) == IsStr(x) /\ \A n \in 0..100 : x # ToString(n)

\* float(x) of a number, or of the string of a decimal numeral
PyFloat(x) == IF IsStr(x) THEN CHOOSE n \in 0..100 : x = ToString(n) ELSE x

\* DeviceMetrics(...) of collect_devices; last_updated is the construction time
DeviceMetrics(d, now) ==
    [hostname     |-> Get(d, "host-name", ""),
     system_ip    |-> Get(d, "system-ip", ""),
     site_id      |-> Get(d, "site-id", ""),
     reachability |-> Get(d, "reachability", "unknown"),
     model        |-> Get(d, "device-model", ""),
     version      |-> Get(d, "version", ""),
     cpu          |-> PyFloat(Get(d, "cpu-load", 0)),
     memory       |-> PyFloat(Get(d, "mem-usage", 0)),
     uptime       |-> Get(d, "uptime-date", ""),
     last_updated |-> now]

\* the for loop of collect_devices over raw: the number of records it
\* appends before float() raises, all of them if none does
Appended(raw) ==
    LET bad == {i \in DOMAIN raw : \/ FloatRaises(Get(raw[i], "cpu-load", 0))
                                   \/ FloatRaises(Get(raw[i], "mem-usage", 0))}
    IN  IF bad = {} THEN Len(raw) ELSE (CHOOSE i \in bad : \A j \in bad : i <= j) - 1

\* TunnelMetrics(...) of collect_tunnels; the rates are kbps / 1000, kept as
\* the exact quotient
TunnelMetrics(t) ==
    [source_ip |-> Get(t, "local-system-ip", ""),
     dest_ip   |-> Get(t, "remote-system-ip", ""),
     color     |-> Get(t, "local-color", ""),
     state     |-> Get(t, "state", "down"),
     latency   |-> PyFloat(Get(t, "latency", 0)),
     loss      |-> PyFloat(Get(t, "loss-percentage", 0)),
     jitter    |-> PyFloat(Get(t, "jitter", 0)),
     tx_rate   |-> <<PyFloat(Get(t, "tx-kbps", 0)), 1000>>,
     rx_rate   |-> <<PyFloat(Get(t, "rx-kbps", 0)), 1000>>]

-----------------------------------------------------------------------------
(* MetricsCollector: operations *)

\* cseen before the api was ever called for a resource
Never == -1

\* _is_cache_valid, with self._last_fetch = lf
IsCacheValid(lf) == (ctime - lf) < cache_ttl

\* a collect_devices that tests the freshness only
DevicesFetchWhenStale(force) == ~IsCacheValid(last_fetch)

\* collect_devices(force) goes to the api
DevicesFetch(force) == ~(IsCacheValid(last_fetch) /\ ~force)

\* a collect_devices that appends to the cache without emptying it first
DeviceCacheAppending(force) ==
    IF DevicesFetch(force)
    THEN LET raw == ApiGetDeviceStatus(capi)
         IN  device_cache \o [i \in 1..Appended(raw) |-> DeviceMetrics(raw[i], ctime)]
    ELSE device_cache

\* self._device_cache after collect_devices(force): emptied, then filled
\* until the loop ends or the except clause takes over
DeviceCacheAfter(force) ==
    IF DevicesFetch(force)
    THEN LET raw == ApiGetDeviceStatus(capi)
         IN  [i \in 1..Appended(raw) |-> DeviceMetrics(raw[i], ctime)]
    ELSE device_cache

\* self._last_fetch after collect_devices(force): written after the loop,
\* which an exception skips
LastFetchAfterDevices(force) ==
    IF DevicesFetch(force) /\ Appended(ApiGetDeviceStatus(capi)) = Len(ApiGetDeviceStatus(capi))
    THEN ctime ELSE last_fetch

\* collect_tunnels(force) goes to the api, with self._last_fetch = lf
TunnelsFetch(lf, force) == ~(IsCacheValid(lf) /\ ~force)

\* self._tunnel_cache after collect_tunnels(force); _last_fetch is not written
TunnelCacheAfter(lf, force) ==
    IF TunnelsFetch(lf, force)
    THEN LET raw == ApiGetTunnelStats(capi)
         IN  [i \in DOMAIN raw |-> TunnelMetrics(raw[i])]
    ELSE tunnel_cache

\* a count of the devices that report themselves unreachable
CountDown(devs) == Cardinality({i \in DOMAIN devs : devs[i].reachability = "unreachable"})

\* sum(1 for x in s if P(x)) for the predicates of get_health_summary
CountReachable(devs) == Cardinality({i \in DOMAIN devs : devs[i].reachability = "reachable"})
CountUnreachable(devs) == Cardinality({i \in DOMAIN devs : devs[i].reachability # "reachable"})
CountUp(tuns) == Cardinality({i \in DOMAIN tuns : tuns[i].state = "up"})
CountDegraded(tuns) ==
    Cardinality({i \in DOMAIN tuns : tuns[i].loss > 1 \/ tuns[i].latency > 100})

\* the dict get_health_summary returns
HealthSummary(devs, tuns) ==
    [total_devices    |-> Len(devs),
     reachable        |-> CountReachable(devs),
     unreachable      |-> CountUnreachable(devs),
     active_tunnels   |-> CountUp(tuns),
     degraded_tunnels |-> CountDegraded(tuns)]

\* cseen after a call: the resources in fetched were asked of the api now
SeenAfter(fetched, force) ==
    [k \in {"devices", "tunnels"} |->
        IF k \in fetched
        THEN [called |-> ctime, forced |-> force,
              answered |-> IF capi.up THEN ctime ELSE cseen[k].answered]
        ELSE cseen[k]]

CollectorInit ==
    /\ cache_ttl \in {0, 60}
    /\ device_cache = <<>>
    /\ tunnel_cache = <<>>
    /\ last_fetch = 0
    /\ ctime = Epoch
    /\ capi \in [up : {TRUE}, devices : DeviceFeeds, tunnels : TunnelFeeds]
    /\ cseen = [k \in {"devices", "tunnels"} |-> [called |-> Never, forced |-> FALSE, answered |-> Never]]
    /\ clast = NoCall

\* time passes
CollectorTick ==
    /\ UNCHANGED <<avars, mvars, fvars>>
    /\ ctime < Epoch + MaxCollectorTicks * CollectorTickSeconds
    /\ ctime' = ctime + CollectorTickSeconds
    /\ clast' = NoCall
    /\ UNCHANGED <<cache_ttl, device_cache, tunnel_cache, last_fetch, capi, cseen>>

\* the controller goes away, comes back, or its data changes
ControllerChange ==
    /\ UNCHANGED <<avars, mvars, fvars>>
    /\ capi' \in [up : BOOLEAN, devices : DeviceFeeds, tunnels : TunnelFeeds]
    /\ capi' # capi
    /\ clast' = NoCall
    /\ UNCHANGED <<cache_ttl, device_cache, tunnel_cache, last_fetch, ctime, cseen>>

\* collect_devices(force)
CollectDevices(force) ==
    /\ UNCHANGED <<avars, mvars, fvars>>
    /\ LET fetched == IF DevicesFetch(force) THEN {"devices"} ELSE {}
       IN  /\ device_cache' = DeviceCacheAfter(force)
           /\ last_fetch' = LastFetchAfterDevices(force)
           /\ cseen' = SeenAfter(fetched, force)
           /\ clast' = [op |-> "collect_devices", force |-> force, time |-> ctime,
                        fetched |-> fetched, returned |-> DeviceCacheAfter(force)]
           /\ UNCHANGED <<cache_ttl, tunnel_cache, ctime, capi>>

\* collect_tunnels(force)
CollectTunnels(force) ==
    /\ UNCHANGED <<avars, mvars, fvars>>
    /\ LET fetched == IF TunnelsFetch(last_fetch, force) THEN {"tunnels"} ELSE {}
       IN  /\ tunnel_cache' = TunnelCacheAfter(last_fetch, force)
           /\ cseen' = SeenAfter(fetched, force)
           /\ clast' = [op |-> "collect_tunnels", force |-> force, time |-> ctime,
                        fetched |-> fetched, returned |-> TunnelCacheAfter(last_fetch, force)]
           /\ UNCHANGED <<cache_ttl, device_cache, last_fetch, ctime, capi>>

\* get_health_summary(): collect_devices() and then collect_tunnels()
GetHealthSummary ==
    /\ UNCHANGED <<avars, mvars, fvars>>
    /\ LET lf   == LastFetchAfterDevices(FALSE)
           devs == DeviceCacheAfter(FALSE)
           tuns == TunnelCacheAfter(lf, FALSE)
           fetched == (IF DevicesFetch(FALSE) THEN {"devices"} ELSE {})
                      \cup (IF TunnelsFetch(lf, FALSE) THEN {"tunnels"} ELSE {})
       IN  /\ device_cache' = devs
           /\ last_fetch' = lf
           /\ tunnel_cache' = tuns
           /\ cseen' = SeenAfter(fetched, FALSE)
           /\ clast' = [op |-> "get_health_summary", force |-> FALSE, time |-> ctime,
                        fetched |-> fetched, returned |-> tuns, summary |-> HealthSummary(devs, tuns)]
           /\ UNCHANGED <<cache_ttl, ctime, capi>>

CollectorNext ==
    \/ CollectorTick
    \/ ControllerChange
    \/ \E force \in BOOLEAN : CollectDevices(force)
    \/ \E force \in BOOLEAN : CollectTunnels(force)
    \/ GetHealthSummary

-----------------------------------------------------------------------------
(* SDWANMonitor: the controller and its data *)

\* Raw records of /device as the controller serves them.
RawEdge1 ==
    ("deviceId" :> "10.1.1.1") @@ ("host-name" :> "DC-vEdge-01")
    @@ ("site-id" :> 100) @@ ("reachability" :> "reachable")
    @@ ("cpu-load" :> 45) @@ ("bfd-sessions-up" :> 2) @@ ("bfd-sessions" :> 2)

RawEdge2 ==
    ("system-ip" :> "10.2.1.1") @@ ("hostname" :> "BR-NYC-01")
    @@ ("reachability" :> "unreachable") @@ ("bfd-sessions" :> 4)

\* A second record under the deviceId of the first.
RawEdge3 ==
    ("deviceId" :> "10.1.1.1") @@ ("host-name" :> "DC-vEdge-01-old")
    @@ ("reachability" :> "unreachable")

\* Raw record of /device/monitor.
StatusEdge1 ==
    ("deviceId" :> "10.1.1.1") @@ ("cpuLoad" :> 94) @@ ("memUsage" :> 82)
    @@ ("controlConnections" :> 2)

\* Raw record of /device/bfd/sessions.
RawBfd1 ==
    ("local-system-ip" :> "10.1.1.1") @@ ("remote-system-ip" :> "10.2.1.1")
    @@ ("state" :> "up") @@ ("site-id" :> 100) @@ ("average-latency" :> 20)

\* Raw record of /alarms?cleared=false.
RawAlarm1 ==
    ("uuid" :> "a1") @@ ("severity" :> "Critical") @@ ("system-ip" :> "10.2.1.1")
    @@ ("entry_time" :> 990500) @@ ("acknowledged" :> FALSE)

\* What the controller serves while it is reachable, per endpoint.
Fabric ==
    [devices |-> <<RawEdge1, RawEdge2, RawEdge3>>, status |-> <<StatusEdge1>>,
     bfd |-> <<RawBfd1>>, alarms |-> <<RawAlarm1>>]


\* The body the controller answers a GET with: its alarms carry the
\* acknowledgements it has taken.
Served(api, endpoint) ==
    IF endpoint = "alarms"
    THEN [i \in DOMAIN Fabric.alarms |->
            IF Fabric.alarms[i]["uuid"] \in api.acked
            THEN ("acknowledged" :> TRUE) @@ Fabric.alarms[i]
            ELSE Fabric.alarms[i]]
    ELSE Fabric[endpoint]

\* an exception leaves _get or _post when the call fails, as it would
\* without their except clause
ClientRaisesWhenDown(api) == ~api.up

\* VManageAPI._get and _post, except Exception: whatever the HTTP call
\* raises is logged and answered with None; no exception leaves the client
ClientRaises(api) == FALSE

\* VManageAPI._get: the parsed body, or None on any failure or non-200
VManageGet(api, endpoint) ==
    IF api.up THEN [none |-> FALSE, data |-> Served(api, endpoint)] ELSE [none |-> TRUE]

\* VManageAPI._post to /alarms/acknowledge: the parsed body, or None on any
\* failure or a status other than 200 and 201, which is what the controller
\* answers for an alarm id it does not know
VManagePost(api, alarm_id) ==
    IF api.up /\ alarm_id \in {Fabric.alarms[i]["uuid"] : i \in DOMAIN Fabric.alarms}
    THEN [none |-> FALSE, data |-> EmptyDict] ELSE [none |-> TRUE]

\* an acknowledge_alarm that reports every call as a success
AcknowledgeAlways(api, alarm_id) == TRUE

\* VManageAPI.acknowledge_alarm: result is not None
VManageAcknowledgeAlarm(api, alarm_id) == ~VManagePost(api, alarm_id).none

\* VManageAPI.get_devices
VManageGetDevices(api) == DataOrEmpty(VManageGet(api, "devices"))

\* VManageAPI.get_device_status
VManageGetDeviceStatus(api) == DataOrEmpty(VManageGet(api, "status"))

\* VManageAPI.get_bfd_sessions
VManageGetBfdSessions(api) == DataOrEmpty(VManageGet(api, "bfd"))

\* VManageAPI.get_active_alarms
VManageGetActiveAlarms(api) == DataOrEmpty(VManageGet(api, "alarms"))

-----------------------------------------------------------------------------
(* SDWANMonitor: normalisation *)

\* int(x) of a number
PyInt(x) == x

\* x or 0, for a number x
OrZero(x) == IF x = 0 THEN 0 ELSE x

\* a str() that renders the default of a missing key with its quotes
StrOfDefaultQuoted(raw, key) == ToString(Get(raw, key, ""))

\* str(raw.get(key, "")) where the raw value is an integer
StrOf(raw, key) == IF key \in DOMAIN raw THEN ToString(raw[key]) ELSE ""

\* status_index.get(device_id, {}): the last status record with that deviceId
StatusIndexGet(status_data, device_id) ==
    LET hits == {i \in DOMAIN status_data :
                    /\ "deviceId" \in DOMAIN status_data[i]
                    /\ status_data[i]["deviceId"] = device_id}
    IN  IF hits = {} THEN EmptyDict
        ELSE status_data[CHOOSE i \in hits : \A j \in hits : j <= i]

\* DeviceHealth(...) as get_devices builds it from a raw record and the
\* status index; last_updated is the construction time
DeviceHealth(raw, status_data, now) ==
    LET device_id == Get(raw, "deviceId", Get(raw, "system-ip", ""))
        status    == StatusIndexGet(status_data, device_id)
    IN  [device_id  |-> device_id,
         hostname   |-> Get(raw, "host-name", Get(raw, "hostname", "Unknown")),
         site_id    |-> StrOf(raw, "site-id"),
         status     |-> Get(raw, "status", Get(raw, "reachability", "unknown")),
         reachability   |-> Get(raw, "reachability", "unknown"),
         cpu_percent    |-> PyFloat(OrZero(Get(status, "cpuLoad", Get(raw, "cpu-load", 0)))),
         memory_percent |-> PyFloat(OrZero(Get(status, "memUsage", Get(raw, "mem-usage", 0)))),
         disk_percent   |-> PyFloat(OrZero(Get(status, "diskUsage", Get(raw, "disk-usage", 0)))),
         control_connections |->
             PyInt(OrZero(Get(status, "controlConnections", Get(raw, "controlConnections", 0)))),
         control_connections_expected |-> 2,
         tunnels_up    |-> PyInt(OrZero(Get(status, "omp-peers-up", Get(raw, "bfd-sessions-up", 0)))),
         tunnels_total |-> PyInt(OrZero(Get(status, "omp-peers", Get(raw, "bfd-sessions", 0)))),
         uptime  |-> Get(raw, "uptime-date", Get(raw, "uptime", "")),
         version |-> Get(raw, "version", ""),
         model   |-> Get(raw, "device-model", Get(raw, "model", "")),
         board_serial |-> Get(raw, "board-serial", Get(raw, "serialNumber", "")),
         last_updated |-> now]

\* TunnelHealth(...) as get_tunnels builds it from a BFD session
TunnelHealth(bfd, now) ==
    [source_ip    |-> Get(bfd, "local-system-ip", Get(bfd, "src-ip", "")),
     dest_ip      |-> Get(bfd, "remote-system-ip", Get(bfd, "dst-ip", "")),
     source_color |-> Get(bfd, "local-color", ""),
     dest_color   |-> Get(bfd, "remote-color", Get(bfd, "color", "")),
     state        |-> Get(bfd, "state", "unknown"),
     source_site  |-> StrOf(bfd, "site-id"),
     dest_site    |-> StrOf(bfd, "remote-site-id"),
     latency_ms   |-> PyFloat(OrZero(Get(bfd, "average-latency", 0))),
     jitter_ms    |-> PyFloat(OrZero(Get(bfd, "average-jitter", 0))),
     loss_percent |-> PyFloat(OrZero(Get(bfd, "loss", 0))),
     tx_bytes     |-> 0,
     rx_bytes     |-> 0,
     last_updated |-> now]

\* Alarm(...) as get_alarms builds it; the timestamp is entry_time / 1000,
\* kept as whole seconds and the remaining milliseconds
Alarm(raw) ==
    [alarm_id  |-> Get(raw, "uuid", ""),
     severity  |-> Get(raw, "severity", "Unknown"),
     type      |-> Get(raw, "type", ""),
     rule_name |-> Get(raw, "ruleName", Get(raw, "rule-name-display", "")),
     component |-> Get(raw, "component", ""),
     device_id |-> Get(raw, "system-ip", ""),
     hostname  |-> Get(raw, "host-name", "Unknown"),
     message   |-> Get(raw, "message", Get(raw, "eventname", "")),
     timestamp |-> <<Get(raw, "entry_time", 0) \div 1000, Get(raw, "entry_time", 0) % 1000>>,
     acknowledged |-> Get(raw, "acknowledged", FALSE)]

\* the fetch closure of get_devices
FetchDevices(api, now) ==
    LET raw_devices == VManageGetDevices(api)
        status_data == VManageGetDeviceStatus(api)
    IN  [i \in DOMAIN raw_devices |-> DeviceHealth(raw_devices[i], status_data, now)]

\* the fetch closure of get_tunnels
FetchTunnels(api, now) ==
    LET bfd_sessions == VManageGetBfdSessions(api)
    IN  [i \in DOMAIN bfd_sessions |-> TunnelHealth(bfd_sessions[i], now)]

\* the fetch closure of get_alarms
FetchAlarms(api) ==
    LET raw_alarms == VManageGetActiveAlarms(api)
    IN  [i \in DOMAIN raw_alarms |-> Alarm(raw_alarms[i])]

-----------------------------------------------------------------------------
(* SDWANMonitor: the fabric summary *)

\* a health_status with a fourth value, for the devices short of control
\* connections
HealthStatusDegraded(d) ==
    IF d.status # "reachable" THEN "critical"
    ELSE IF d.cpu_percent >= 90 \/ d.memory_percent >= 95 THEN "critical"
    ELSE IF d.cpu_percent >= 70 \/ d.memory_percent >= 75 THEN "warning"
    ELSE IF d.control_connections < d.control_connections_expected THEN "degraded"
    ELSE "healthy"

\* DeviceHealth.health_status
HealthStatus(d) ==
    IF d.status # "reachable" THEN "critical"
    ELSE IF d.cpu_percent >= 90 \/ d.memory_percent >= 95 THEN "critical"
    ELSE IF d.cpu_percent >= 70 \/ d.memory_percent >= 75 THEN "warning"
    ELSE IF d.control_connections < d.control_connections_expected THEN "warning"
    ELSE "healthy"

\* the sum of one integer field over a list of records
RECURSIVE SumField(_, _)
SumField(s, f) == IF s = <<>> THEN 0 ELSE Head(s)[f] + SumField(Tail(s), f)

\* the number of devices with the given health_status
CountStatus(devices, st) ==
    Cardinality({i \in DOMAIN devices : HealthStatus(devices[i]) = st})

\* the number of alarms of the given severity
CountSeverity(alarms, sev) ==
    Cardinality({i \in DOMAIN alarms : alarms[i].severity = sev})

(* Python floats are IEEE-754 doubles, rounded to nearest, ties to even.
   A natural number of any size is the sequence of its digits in base
   2^LimbBits, lowest first, without high zeros; a double is m * 2^e with
   m such a number of at most MantissaBits bits (one more after a carry
   out of the top bit). *)

\* bits of the significand of a double
MantissaBits == 53

\* bits of one digit of a long natural number
LimbBits == MantissaBits - 38

Base == 2^LimbBits

\* digits the long division of FloatDiv produces behind the point before
\* it rounds: enough for every quotient of at least 2^-10
DivisionLimbs == (MantissaBits + 22) \div LimbBits

\* the digits of a natural number
RECURSIVE BOfNat(_)
BOfNat(n) == IF n = 0 THEN <<>> ELSE <<n % Base>> \o BOfNat(n \div Base)

\* a digit sequence without its high zeros
RECURSIVE BNorm(_)
BNorm(a) ==
    IF a = <<>> THEN <<>>
    ELSE IF a[Len(a)] = 0 THEN BNorm(SubSeq(a, 1, Len(a) - 1))
    ELSE a

\* a + b + carry
RECURSIVE BAddC(_, _, _)
BAddC(a, b, c) ==
    IF a = <<>> /\ b = <<>> THEN BOfNat(c)
    ELSE LET s == (IF a = <<>> THEN 0 ELSE Head(a)) + (IF b = <<>> THEN 0 ELSE Head(b)) + c
         IN  <<s % Base>> \o BAddC(IF a = <<>> THEN <<>> ELSE Tail(a),
                                   IF b = <<>> THEN <<>> ELSE Tail(b), s \div Base)

\* a * n + carry for a natural n below Base
RECURSIVE BMulC(_, _, _)
BMulC(a, n, c) ==
    IF a = <<>> THEN BOfNat(c)
    ELSE LET p == Head(a) * n + c
         IN  <<p % Base>> \o BMulC(Tail(a), n, p \div Base)

BMulSmall(a, n) == BNorm(BMulC(a, n, 0))

\* the number of bits of a
BitLen(a) ==
    IF a = <<>> THEN 0
    ELSE LimbBits * (Len(a) - 1)
         + (CHOOSE k \in 1..LimbBits : 2^(k - 1) <= a[Len(a)] /\ a[Len(a)] < 2^k)

\* bit i of a, the lowest being bit 1
Bit(a, i) ==
    LET j == ((i - 1) \div LimbBits) + 1
    IN  IF j > Len(a) THEN 0 ELSE (a[j] \div 2^((i - 1) % LimbBits)) % 2

\* a without its d lowest bits
BShr(a, d) ==
    LET q == d \div LimbBits
        s == d % LimbBits
        Digit(j) == IF j > Len(a) THEN 0 ELSE a[j]
    IN  BNorm([j \in 1..(Len(a) - q) |->
                  (Digit(j + q) \div 2^s) + (Digit(j + q + 1) % 2^s) * 2^(LimbBits - s)])

\* m * 2^e with m odd (or m = 0 and e = 0): equal doubles are equal records
Normal(m, e) ==
    IF m = <<>> THEN [m |-> <<>>, e |-> 0]
    ELSE LET z == CHOOSE z \in 0..(BitLen(m) - 1) :
                      Bit(m, z + 1) = 1 /\ \A i \in 1..z : Bit(m, i) = 0
         IN  [m |-> BShr(m, z), e |-> e + z]

\* the double nearest to (n + f) * 2^e, where 0 <= f < 1 and sticky says
\* whether f > 0 (f = 0 whenever n has no bit to spare)
RoundToDouble(n, e, sticky) ==
    IF BitLen(n) <= MantissaBits THEN Normal(n, e)
    ELSE LET d    == BitLen(n) - MantissaBits
             kept == BShr(n, d)
             st   == sticky \/ \E i \in 1..(d - 1) : Bit(n, i) = 1
             up   == Bit(n, d) = 1 /\ (st \/ Bit(kept, 1) = 1)
         IN  Normal(IF up THEN BAddC(kept, <<>>, 1) ELSE kept, e + d)

\* float(n) for a small natural n
FloatOfNat(n) == RoundToDouble(BOfNat(n), 0, FALSE)

\* the remainders r, r * Base mod t, ... of the long division by t
RECURSIVE Remainders(_, _, _)
Remainders(r, t, k) ==
    IF k = 0 THEN <<>> ELSE <<r>> \o Remainders((r * Base) % t, t, k - 1)

\* u // t: the quotient of the floor division, as a double
FloatDivFloor(u, t) == FloatOfNat(u \div t)

\* u / t of two ints, u >= 0 and 0 < t < Base: the correctly rounded quotient
FloatDiv(u, t) ==
    LET rems == Remainders(u % t, t, DivisionLimbs + 1)
        frac == [i \in 1..DivisionLimbs |->
                    (rems[DivisionLimbs + 1 - i] * Base) \div t]
    IN  RoundToDouble(BNorm(frac \o BOfNat(u \div t)),
                      -(DivisionLimbs * LimbBits),
                      rems[DivisionLimbs + 1] # 0)

\* x * n of a double and a natural below Base
FloatMulSmall(x, n) == RoundToDouble(BMulSmall(x.m, n), x.e, FALSE)

\* a summary that starts from the counts of the summary before it
FabricHealthAccumulating(devices, alarms, now) ==
    LET before == IF flast = NoCall THEN 0 ELSE flast.health.total_devices
    IN  [total_devices    |-> before + Len(devices),
         healthy_devices  |-> CountStatus(devices, "healthy"),
         warning_devices  |-> CountStatus(devices, "warning"),
         critical_devices |-> CountStatus(devices, "critical"),
         unreachable_devices |->
             Cardinality({i \in DOMAIN devices : devices[i].reachability # "reachable"}),
         total_tunnels  |-> SumField(devices, "tunnels_total"),
         tunnels_up     |-> SumField(devices, "tunnels_up"),
         tunnels_down   |-> SumField(devices, "tunnels_total") - SumField(devices, "tunnels_up"),
         total_alarms   |-> Len(alarms),
         critical_alarms |-> CountSeverity(alarms, "Critical"),
         major_alarms   |-> CountSeverity(alarms, "Major"),
         minor_alarms   |-> CountSeverity(alarms, "Minor"),
         sla_compliance |-> FloatOfNat(100),
         last_updated   |-> now]

\* the FabricHealth get_fabric_health builds from the two lists it obtained;
\* sla_compliance is the double the two float operations give
FabricHealth(devices, alarms, now) ==
    LET total_tunnels == SumField(devices, "tunnels_total")
        tunnels_up    == SumField(devices, "tunnels_up")
    IN  [total_devices    |-> Len(devices),
         healthy_devices  |-> CountStatus(devices, "healthy"),
         warning_devices  |-> CountStatus(devices, "warning"),
         critical_devices |-> CountStatus(devices, "critical"),
         unreachable_devices |->
             Cardinality({i \in DOMAIN devices : devices[i].reachability # "reachable"}),
         total_tunnels  |-> total_tunnels,
         tunnels_up     |-> tunnels_up,
         tunnels_down   |-> total_tunnels - tunnels_up,
         total_alarms   |-> Len(alarms),
         critical_alarms |-> CountSeverity(alarms, "Critical"),
         major_alarms   |-> CountSeverity(alarms, "Major"),
         minor_alarms   |-> CountSeverity(alarms, "Minor"),
         sla_compliance |-> IF total_tunnels > 0
                            THEN FloatMulSmall(FloatDiv(tunnels_up, total_tunnels), 100)
                            ELSE FloatOfNat(100),
         last_updated   |-> now]

-----------------------------------------------------------------------------
(* SDWANMonitor: the keyed cache and the threads that use it *)

\* The publisher thread main() starts, and the thread that serves one
\* request to the Flask application.
Threads == {"publisher", "handler"}

\* The cache keys.
Keys == {"devices", "tunnels", "alarms"}

\* the ttl argument each accessor passes to _get_cached: <<>> is None
TtlArg(key) == IF key = "alarms" THEN <<AlarmsTtl>> ELSE <<>>

\* ttl = ttl or self._cache_ttl
EffectiveTtl(ttl) == IF ttl = <<>> \/ ttl[1] = 0 THEN MonitorCacheTtl ELSE ttl[1]

\* the fetcher each accessor passes to _get_cached
Fetcher(key, api, now) ==
    CASE key = "devices" -> FetchDevices(api, now)
      [] key = "tunnels" -> FetchTunnels(api, now)
      [] key = "alarms"  -> FetchAlarms(api)

\* the cached accessors a handler or the publisher loop calls, in order;
\* "fabric_health" is where get_fabric_health builds its summary from the
\* two lists it has just obtained
Program(op) ==
    CASE op = "background_monitor" ->
             <<"devices", "alarms", "fabric_health", "devices", "alarms">>
      [] op = "api_health"  -> <<"devices", "alarms", "fabric_health">>
      [] op = "api_devices" -> <<"devices">>
      [] op = "api_tunnels" -> <<"tunnels">>
      [] op = "api_alarms"  -> <<"alarms">>
      [] op = "api_device"  -> <<"devices">>

HandlerOps == {"api_health", "api_devices", "api_tunnels", "api_alarms"}

\* a thread that is in no call
IdleThread ==
    [pc |-> "idle", op |-> "none", arg |-> "", todo |-> <<>>, data |-> <<>>,
     failed |-> FALSE, got |-> <<>>, wake |-> 0]

\* the thread after the cached accessor it is in returned value:
\* the value joins the locals, and get_fabric_health builds its summary
\* once it holds its two lists
Returned(rec, value) ==
    LET got1  == Append(rec.got, value)
        todo1 == Tail(rec.todo)
        summed == todo1 # <<>> /\ Head(todo1) = "fabric_health"
    IN  [rec EXCEPT !.pc = "check",
                    !.data = <<>>, !.failed = FALSE,
                    !.got = IF summed THEN <<FabricHealth(got1[1], got1[2], mnow)>>
                            ELSE got1,
                    !.todo = IF summed THEN Tail(todo1) ELSE todo1]

\* the handler or the loop body is through with its accessors
Done(rec) == rec.todo = <<>>

\* a get_device that returns the last device with that id
ScanFromEnd(devices, device_id) ==
    LET hits == {i \in DOMAIN devices : devices[i].device_id = device_id}
    IN  IF hits = {} THEN <<>>
        ELSE <<devices[CHOOSE i \in hits : \A j \in hits : j <= i]>>

\* get_device, the scan of the list get_devices() returned: the first
\* device with that id, <<>> for None
Scan(devices, device_id) ==
    LET hits == {i \in DOMAIN devices : devices[i].device_id = device_id}
    IN  IF hits = {} THEN <<>>
        ELSE <<devices[CHOOSE i \in hits : \A j \in hits : i <= j]>>

\* what the finished handler answers, or the finished loop body emits
Response(rec) ==
    CASE rec.op = "background_monitor" ->
             [op |-> "health_update", health |-> rec.got[1],
              devices |-> rec.got[2], alarms |-> rec.got[3]]
      [] rec.op = "api_health"  -> [op |-> "api_health", health |-> rec.got[1]]
      [] rec.op = "api_devices" -> [op |-> "api_devices", devices |-> rec.got[1]]
      [] rec.op = "api_tunnels" -> [op |-> "api_tunnels", tunnels |-> rec.got[1]]
      [] rec.op = "api_alarms"  -> [op |-> "api_alarms", alarms |-> rec.got[1]]
      [] rec.op = "api_device"  ->
             [op |-> "api_device", device_id |-> rec.arg, devices |-> rec.got[1],
              device |-> Scan(rec.got[1], rec.arg)]

\* the thread once its handler answered, or its loop body emitted and
\* went to sleep for refresh_interval
Finished(t, rec) ==
    IF t = "publisher"
    THEN [IdleThread EXCEPT !.pc = "sleep", !.wake = mnow + RefreshInterval]
    ELSE [IdleThread EXCEPT !.pc = "done"]

\* a step of thread t that leaves it at rec: if rec is through with its
\* accessors the answer goes out in the same step
Proceed(t, rec) ==
    IF Done(rec)
    THEN /\ th' = [th EXCEPT ![t] = Finished(t, rec)]
         /\ mlast' = Response(rec)
    ELSE /\ th' = [th EXCEPT ![t] = rec]
         /\ mlast' = NoCall

\* init_monitor and main: the monitor is constructed, connect() logs in,
\* and the publisher thread is started
MonitorInit ==
    /\ mapi \in [up : BOOLEAN, acked : {{}}]
    /\ connected = mapi.up
    /\ mcache = EmptyDict
    /\ mcache_time = EmptyDict
    /\ mnow = Epoch
    /\ th = [t \in Threads |->
                IF t = "publisher"
                THEN [IdleThread EXCEPT !.pc = "sleep", !.wake = Epoch]
                ELSE IdleThread]
    /\ mlast = NoCall

\* time passes
MonitorTick ==
    /\ UNCHANGED <<avars, cvars, fvars>>
    /\ mnow < Epoch + MaxMonitorTicks * TickSeconds
    /\ mnow' = mnow + TickSeconds
    /\ mlast' = NoCall
    /\ UNCHANGED <<connected, mcache, mcache_time, mapi, th>>

\* the controller goes away or comes back
FabricChange ==
    /\ UNCHANGED <<avars, cvars, fvars>>
    /\ mapi' = [mapi EXCEPT !.up = ~@]
    /\ mlast' = NoCall
    /\ UNCHANGED <<connected, mcache, mcache_time, mnow, th>>

\* background_monitor: the sleep is over; a connected monitor starts the
\* loop body, otherwise the loop sleeps again
PublisherWake ==
    /\ UNCHANGED <<avars, cvars, fvars>>
    /\ th["publisher"].pc = "sleep"
    /\ mnow >= th["publisher"].wake
    /\ th' = [th EXCEPT !["publisher"] =
                IF connected
                THEN [IdleThread EXCEPT !.pc = "check", !.op = "background_monitor",
                                        !.todo = Program("background_monitor")]
                ELSE [@ EXCEPT !.wake = mnow + RefreshInterval]]
    /\ mlast' = NoCall
    /\ UNCHANGED <<connected, mcache, mcache_time, mnow, mapi>>

\* the request arrives at one of the routes; a monitor that is not
\* connected answers at once with demo data or an empty answer
HandlerRequest(op) ==
    /\ UNCHANGED <<avars, cvars, fvars>>
    /\ th["handler"].pc = "idle"
    /\ IF connected
       THEN /\ th' = [th EXCEPT !["handler"] =
                        [IdleThread EXCEPT !.pc = "check", !.op = op, !.todo = Program(op)]]
            /\ mlast' = NoCall
       ELSE /\ th' = [th EXCEPT !["handler"].pc = "done"]
            /\ mlast' = [op |-> op, demo |-> TRUE]
    /\ UNCHANGED <<connected, mcache, mcache_time, mnow, mapi>>

\* _get_cached, the freshness check: a fresh entry is returned, otherwise
\* the thread goes on to call the fetcher
CacheCheck(t) ==
    /\ UNCHANGED <<avars, cvars, fvars>>
    /\ th[t].pc = "check"
    /\ LET key == Head(th[t].todo)
           ttl == EffectiveTtl(TtlArg(key))
       IN  IF key \in DOMAIN mcache /\ mnow - Get(mcache_time, key, 0) < ttl
           THEN Proceed(t, Returned(th[t], mcache[key]))
           ELSE /\ th' = [th EXCEPT ![t].pc = "fetch"]
                /\ mlast' = NoCall
    /\ UNCHANGED <<connected, mcache, mcache_time, mnow, mapi>>

\* an exception leaves the accessor thread t is in: the loop of
\* background_monitor logs it and sleeps, a route answers with an error
Raise(t) ==
    /\ th' = [th EXCEPT ![t] =
                IF t = "publisher"
                THEN [IdleThread EXCEPT !.pc = "sleep", !.wake = mnow + ErrorSleep]
                ELSE [IdleThread EXCEPT !.pc = "done"]]
    /\ mlast' = [op |-> th[t].op, raised |-> TRUE]

\* _get_cached, data = fetcher(): the controller answers, or the call
\* fails and the api client turns the failure into an empty list
FetcherReturns(t) ==
    /\ UNCHANGED <<avars, cvars, fvars>>
    /\ th[t].pc = "fetch"
    /\ IF ClientRaises(mapi)
       THEN Raise(t)
       ELSE /\ th' = [th EXCEPT ![t].pc = "store",
                               ![t].data = Fetcher(Head(th[t].todo), mapi, mnow),
                               ![t].failed = ~mapi.up]
            /\ mlast' = NoCall
    /\ UNCHANGED <<connected, mcache, mcache_time, mnow, mapi>>

\* _get_cached, self._cache[key] = data
StoreValue(t) ==
    /\ UNCHANGED <<avars, cvars, fvars>>
    /\ th[t].pc = "store"
    /\ mcache' = (Head(th[t].todo) :> th[t].data) @@ mcache
    /\ th' = [th EXCEPT ![t].pc = "stamp"]
    /\ mlast' = NoCall
    /\ UNCHANGED <<connected, mcache_time, mnow, mapi>>

\* _get_cached, self._cache_time[key] = now, and return data
StoreTime(t) ==
    /\ UNCHANGED <<avars, cvars, fvars>>
    /\ th[t].pc = "stamp"
    /\ mcache_time' = (Head(th[t].todo) :> mnow) @@ mcache_time
    /\ Proceed(t, Returned(th[t], th[t].data))
    /\ UNCHANGED <<connected, mcache, mnow, mapi>>

\* a request for /api/devices/<device_id> arrives; a monitor that is not
\* connected answers at once
DeviceRequest(device_id) ==
    /\ UNCHANGED <<avars, cvars, fvars>>
    /\ th["handler"].pc = "idle"
    /\ IF connected
       THEN /\ th' = [th EXCEPT !["handler"] =
                        [IdleThread EXCEPT !.pc = "check", !.op = "api_device",
                                           !.arg = device_id,
                                           !.todo = Program("api_device")]]
            /\ mlast' = NoCall
       ELSE /\ th' = [th EXCEPT !["handler"].pc = "done"]
            /\ mlast' = [op |-> "api_device", demo |-> TRUE]
    /\ UNCHANGED <<connected, mcache, mcache_time, mnow, mapi>>

\* a POST to /api/alarms/<alarm_id>/ack is served: acknowledge_alarm
\* delegates to the controller, which marks an alarm it knows
AckRequest(alarm_id) ==
    /\ UNCHANGED <<avars, cvars, fvars>>
    /\ th["handler"].pc = "idle"
    /\ th' = [th EXCEPT !["handler"].pc = "done"]
    /\ IF connected
       THEN LET success == VManageAcknowledgeAlarm(mapi, alarm_id)
            IN  /\ mlast' = [op |-> "api_ack_alarm", alarm_id |-> alarm_id,
                             raised |-> ClientRaises(mapi), success |-> success]
                /\ mapi' = IF VManagePost(mapi, alarm_id).none THEN mapi
                           ELSE [mapi EXCEPT !.acked = @ \cup {alarm_id}]
       ELSE /\ mlast' = [op |-> "api_ack_alarm", demo |-> TRUE]
            /\ mapi' = mapi
    /\ UNCHANGED <<connected, mcache, mcache_time, mnow>>

\* the request is through; the next one is served by the same worker
NextRequest ==
    /\ UNCHANGED <<avars, cvars, fvars>>
    /\ th["handler"].pc = "done"
    /\ th' = [th EXCEPT !["handler"] = IdleThread]
    /\ mlast' = NoCall
    /\ UNCHANGED <<connected, mcache, mcache_time, mnow, mapi>>

\* the routes served one request after the other while the publisher
\* loop is not scheduled
RequestsNext ==
    \/ MonitorTick
    \/ FabricChange
    \/ \E op \in HandlerOps : HandlerRequest(op)
    \/ \E device_id \in {"10.1.1.1", "10.2.1.1", "10.9.9.9"} : DeviceRequest(device_id)
    \/ \E alarm_id \in {"a1", "zz"} : AckRequest(alarm_id)
    \/ NextRequest
    \/ CacheCheck("handler")
    \/ FetcherReturns("handler")
    \/ StoreValue("handler")
    \/ StoreTime("handler")

MonitorNext ==
    \/ MonitorTick
    \/ FabricChange
    \/ PublisherWake
    \/ \E op \in HandlerOps : HandlerRequest(op)
    \/ \E t \in Threads : CacheCheck(t)
    \/ \E t \in Threads : FetcherReturns(t)
    \/ \E t \in Threads : StoreValue(t)
    \/ \E t \in Threads : StoreTime(t)

-----------------------------------------------------------------------------
(* The classifier and the fabric summary, one caller at a time *)

\* Config.from_file: the thresholds of the YAML file, each with its default
ConfigFromFile(file_thresholds) ==
    [cpu_warning     |-> Get(file_thresholds, "cpu_warning", 70),
     cpu_critical    |-> Get(file_thresholds, "cpu_critical", 90),
     memory_warning  |-> Get(file_thresholds, "memory_warning", 75),
     memory_critical |-> Get(file_thresholds, "memory_critical", 95)]

\* The thresholds section of config.yaml: absent, or lowered thresholds.
FileThresholds ==
    {EmptyDict,
     ("cpu_warning" :> 50) @@ ("cpu_critical" :> 85)
         @@ ("memory_warning" :> 60) @@ ("memory_critical" :> 90)}

\* a raw /device record without a status attribute
RawDevice(cpu, mem, cc, reach, tun) ==
    ("deviceId" :> "10.1.1.1") @@ ("host-name" :> "edge")
    @@ ("reachability" :> reach) @@ ("cpu-load" :> cpu) @@ ("mem-usage" :> mem)
    @@ ("controlConnections" :> cc)
    @@ ("bfd-sessions-up" :> tun[1]) @@ ("bfd-sessions" :> tun[2])

\* Raw /device records the controller may serve, with or without a status
\* attribute beside the reachability attribute; the last argument is
\* (bfd-sessions-up, bfd-sessions).
RawDevices ==
    LET plain == {RawDevice(cpu, mem, cc, reach, tun) :
                     cpu \in {10, 60, 92}, mem \in {10, 80, 96}, cc \in {1, 2},
                     reach \in {"reachable", "unreachable"},
                     tun \in {<<0, 0>>, <<1, 3>>, <<2, 2>>}}
    IN  plain \cup {("status" :> st) @@ raw : st \in {"normal", "reachable"},
                                              raw \in plain}

\* Device lists the controller may serve: none, one device, two of a
\* healthy and an unreachable edge, or one device whose record reports
\* more sessions up than sessions (the two attributes are read
\* independently of each other).
RawDeviceLists ==
    LET pair == {RawDevice(10, 10, 2, "reachable", <<2, 2>>),
                 RawDevice(10, 10, 2, "unreachable", <<1, 3>>)}
    IN  {<<>>} \cup {<<raw>> : raw \in RawDevices}
            \cup {<<a, b>> : a \in pair, b \in pair}
            \cup {<<RawDevice(10, 10, 2, "reachable", <<3, 1>>)>>}

\* Raw alarms by severity.
RawAlarmOf(sev) == ("uuid" :> "a1") @@ ("severity" :> sev) @@ ("entry_time" :> 990500)

\* Alarm lists the controller may serve.
RawAlarmLists ==
    {<<>>, <<RawAlarmOf("Critical"), RawAlarmOf("Major")>>,
     <<RawAlarmOf("Minor"), RawAlarmOf("Critical")>>}

\* get_devices() as get_fabric_health calls it: the cached list, or, when
\* the entry is missing or has expired, the list built from what the
\* controller serves (it serves no device-status rows here)
CachedDevices(expired, now) ==
    IF "devices" \in DOMAIN fcache /\ ~expired
    THEN fcache["devices"]
    ELSE [i \in DOMAIN fraw.devices |-> DeviceHealth(fraw.devices[i], <<>>, now)]

\* get_alarms() as get_fabric_health calls it
CachedAlarms(expired) ==
    IF "alarms" \in DOMAIN fcache /\ ~expired
    THEN fcache["alarms"]
    ELSE [i \in DOMAIN fraw.alarms |-> Alarm(fraw.alarms[i])]

\* the health_status values get_fabric_health reads, device by device
Statuses(devices) == [i \in DOMAIN devices |-> HealthStatus(devices[i])]

FabricInit ==
    /\ config \in {ConfigFromFile(t) : t \in FileThresholds}
    /\ fraw \in [devices : RawDeviceLists, alarms : RawAlarmLists]
    /\ fcache = EmptyDict
    /\ fcalls = 0
    /\ flast = NoCall

\* the controller loses its first device and its alarms clear
FabricShrinks ==
    /\ UNCHANGED <<avars, cvars, mvars>>
    /\ fraw.devices # <<>>
    /\ fraw' = [devices |-> Tail(fraw.devices), alarms |-> <<>>]
    /\ UNCHANGED <<config, fcache, fcalls, flast>>

\* get_fabric_health(); expired: which cache entries are older than their TTL
GetFabricHealth(expired) ==
    /\ UNCHANGED <<avars, cvars, mvars>>
    /\ fcalls < MaxFabricCalls
    /\ LET now     == Epoch + fcalls
           devices == CachedDevices(expired.devices, now)
           alarms  == CachedAlarms(expired.alarms)
       IN  /\ fcache' = ("devices" :> devices) @@ ("alarms" :> alarms)
           /\ flast' = [op |-> "get_fabric_health", expired |-> expired,
                        before   |-> fcache,
                        health   |-> FabricHealth(devices, alarms, now),
                        devices  |-> devices,
                        alarms   |-> alarms,
                        statuses |-> Statuses(devices)]
    /\ fcalls' = fcalls + 1
    /\ UNCHANGED <<config, fraw>>

\* A raw /device record with every key get_devices looks for in it.
FullDevice ==
    ("deviceId" :> "10.1.1.1") @@ ("system-ip" :> "10.1.1.2")
    @@ ("host-name" :> "edge-a") @@ ("hostname" :> "edge-b")
    @@ ("reachability" :> "reachable") @@ ("cpu-load" :> 45)
    @@ ("device-model" :> "vEdge-1000") @@ ("model" :> "vedge")
    @@ ("site-id" :> 100)

\* the controller serves one record that holds some of those keys
SparseInit ==
    /\ config = ConfigFromFile(EmptyDict)
    /\ fraw \in [devices : {<<[k \in keys |-> FullDevice[k]]>> : keys \in SUBSET DOMAIN FullDevice},
                 alarms  : {<<>>}]
    /\ fcache = EmptyDict
    /\ fcalls = 0
    /\ flast = NoCall

FabricNext ==
    \/ FabricShrinks
    \/ \E expired \in [devices : BOOLEAN, alarms : BOOLEAN] : GetFabricHealth(expired)

-----------------------------------------------------------------------------
(* Specifications: one component runs, the others keep their initial state *)

AlertIdle ==
    /\ thresholds = TestThresholds /\ notify_config = EmptyDict
    /\ alerts = <<>> /\ active_alerts = <<>>
    /\ alert_history = <<>> /\ aclock = 0 /\ alast = NoCall

CollectorIdle ==
    /\ cache_ttl = 60 /\ device_cache = <<>> /\ tunnel_cache = <<>>
    /\ last_fetch = 0 /\ ctime = Epoch
    /\ capi = [up |-> TRUE, devices |-> <<>>, tunnels |-> <<>>]
    /\ cseen = [k \in {"devices", "tunnels"} |-> [called |-> Never, forced |-> FALSE, answered |-> Never]] /\ clast = NoCall

MonitorIdle ==
    /\ connected = FALSE /\ mcache = EmptyDict /\ mcache_time = EmptyDict
    /\ mnow = Epoch /\ mapi = [up |-> FALSE, acked |-> {}]
    /\ th = [t \in Threads |-> IdleThread] /\ mlast = NoCall

FabricIdle ==
    /\ config = ConfigFromFile(EmptyDict)
    /\ fraw = [devices |-> <<>>, alarms |-> <<>>]
    /\ fcache = EmptyDict
    /\ fcalls = 0 /\ flast = NoCall

InitAlerter == AlertInit /\ CollectorIdle /\ MonitorIdle /\ FabricIdle

SpecAlerter == InitAlerter /\ [][AlertNext]_vars

InitNotify == NotifyInit /\ CollectorIdle /\ MonitorIdle /\ FabricIdle

SpecNotify == InitNotify /\ [][NotifyNext]_vars

InitCollector == CollectorInit /\ AlertIdle /\ MonitorIdle /\ FabricIdle

SpecCollector == InitCollector /\ [][CollectorNext]_vars

Init == MonitorInit /\ AlertIdle /\ CollectorIdle /\ FabricIdle

Next == MonitorNext

Spec == Init /\ [][Next]_vars

SpecRequests == Init /\ [][RequestsNext]_vars

InitFabric == FabricInit /\ AlertIdle /\ CollectorIdle /\ MonitorIdle

SpecFabric == InitFabric /\ [][FabricNext]_vars

InitSparse == SparseInit /\ AlertIdle /\ CollectorIdle /\ MonitorIdle

SpecSparse == InitSparse /\ [][FabricNext]_vars

-----------------------------------------------------------------------------
(* MetricsCollector: properties *)

\* the call recorded in c is an accessor call for resource k
Serves(c, k) ==
    \/ c.op = "get_health_summary"
    \/ c.op = "collect_devices" /\ k = "devices"
    \/ c.op = "collect_tunnels" /\ k = "tunnels"

\* the collector's cache of resource k
CollectorCache(k) == IF k = "devices" THEN device_cache ELSE tunnel_cache

\* C2: a call of a cached accessor without force, made less than the TTL
\* after an earlier call fetched the same key, does not fetch again (the two
\* calls fetch once in total) and returns the value the earlier call stored.
C2_SecondCallWithinTtlHits ==
    [][\A k \in {"devices", "tunnels"} :
          (/\ clast'.op \in {"collect_devices", "collect_tunnels"}
           /\ Serves(clast', k)
           /\ ~clast'.force
           /\ cseen[k].called # Never /\ ~cseen[k].forced
           /\ ctime - cseen[k].called < cache_ttl)
          => (k \notin clast'.fetched /\ clast'.returned = CollectorCache(k))]_vars

\* C3: a resource is served from the cache without a fetch only if that
\* same resource was itself successfully fetched less than its TTL ago; and
\* the tunnel list a call returns while the controller has tunnels is never
\* the cache no fetch has ever filled.
C3_OwnFreshness ==
    [][\A k \in {"devices", "tunnels"} :
          /\ (clast'.op # "none" /\ Serves(clast', k) /\ k \notin clast'.fetched)
             => (cseen[k].answered # Never /\ ctime - cseen[k].answered < cache_ttl)
          /\ (clast'.op # "none" /\ Serves(clast', "tunnels") /\ capi.tunnels # <<>>)
             => cseen'["tunnels"].called # Never]_vars

-----------------------------------------------------------------------------
(* SDWANMonitor: properties *)

\* thread t is inside _get_cached for key, at the given place
At(t, pc, key) == th[t].pc = pc /\ Head(th[t].todo) = key

\* the threads whose fetcher call for key is in flight
InFlight(key) == {t \in Threads : At(t, "fetch", key)}

\* C1: a failed fetch does not corrupt the existing entry. When the fetcher
\* of a refresh failed and an entry of the key exists, the step that stores
\* the outcome leaves the cached value as it was and the call returns that
\* value, and the step that stamps the entry leaves its timestamp as it was.
C1_FailedFetchKeepsEntry ==
    [][\A t \in Threads : \A key \in Keys :
          /\ (At(t, "store", key) /\ th[t].failed /\ th'[t] # th[t]
                 /\ key \in DOMAIN mcache)
             => (mcache'[key] = mcache[key] /\ th[t].data = mcache[key])
          /\ (At(t, "stamp", key) /\ th[t].failed /\ th'[t] # th[t]
                 /\ key \in DOMAIN mcache_time)
             => mcache_time'[key] = mcache_time[key]]_vars

\* C4: at no moment are two fetches of the same key in flight.
C4_AtMostOneInFlight == \A key \in Keys : Cardinality(InFlight(key)) <= 1

-----------------------------------------------------------------------------
(* AlertManager: properties *)

\* the Alert objects a list of references denotes
Objects(refs) == [i \in DOMAIN refs |-> alerts[refs[i]]]

\* positions of a returned list holding an alert of the given metric
OfMetric(refs, metric) == {i \in DOMAIN refs : alerts[refs[i]].metric = metric}

\* positions holding an alert of the given metric and severity
OfMetricSeverity(refs, metric, severity) ==
    {i \in OfMetric(refs, metric) : alerts[refs[i]].severity = severity}

\* the last call was evaluate_device and returned a list
DeviceReturned == alast.op = "evaluate_device" /\ ~alast.raised

\* the last call was evaluate_tunnel and returned a list
TunnelReturned == alast.op = "evaluate_tunnel" /\ ~alast.raised

\* a metric entry that has both sub-keys, warning <= critical
Ordered(t) ==
    /\ {"warning", "critical"} \subseteq DOMAIN t
    /\ t["warning"] <= t["critical"]

\* what the two-tier rule asks of the returned list for one metric
TwoTier(refs, metric, value, warn, crit) ==
    /\ Cardinality(OfMetric(refs, metric)) <= 1
    /\ value >= crit =>
          Cardinality(OfMetricSeverity(refs, metric, "critical")) = 1
    /\ (value >= warn /\ value < crit) =>
          Cardinality(OfMetricSeverity(refs, metric, "warning")) = 1
    /\ value < warn => OfMetric(refs, metric) = {}

\* C5: after acknowledge_alert(i) with a valid i, the history record of the
\* acknowledged alert still has acknowledged = false.
C5_AckLeavesHistoryFlag ==
    (alast.op = "acknowledge_alert"
        /\ 0 <= alast.arg /\ alast.arg < Len(active_alerts)) =>
    \A j \in DOMAIN alert_history :
        alert_history[j] = active_alerts[alast.arg + 1] =>
            ~Objects(alert_history)[j].acknowledged

\* C6: every alert that is or ever was in active_alerts (every alert
\* constructed: each is appended to active_alerts by the call that builds it)
\* is in alert_history, and every alert an evaluation call returned is in
\* both collections when the call returns.
C6_ActiveAlsoInHistory ==
    /\ \A r \in DOMAIN alerts : r \in Range(alert_history)
    /\ (DeviceReturned \/ TunnelReturned) =>
          Range(alast.returned) \subseteq
              (Range(active_alerts) \cap Range(alert_history))

\* C7: under a threshold table whose cpu and memory entries have
\* warning <= critical, evaluate_device returns at most one cpu and at most
\* one memory alert: critical when value >= critical, warning when
\* warning <= value < critical, none when value < warning.
C7_DeviceTiersExclusive ==
    (alast.op = "evaluate_device"
        /\ Ordered(ThreshOf(thresholds, "cpu"))
        /\ Ordered(ThreshOf(thresholds, "memory"))) =>
    /\ ~alast.raised
    /\ TwoTier(alast.returned, "cpu", alast.arg.cpu,
               thresholds["cpu"]["warning"], thresholds["cpu"]["critical"])
    /\ TwoTier(alast.returned, "memory", alast.arg.memory,
               thresholds["memory"]["warning"], thresholds["memory"]["critical"])

\* C7 witness: cpu=95, memory below warning, reachable, table of the tests:
\* exactly one alert, critical cpu.
C7_Witness ==
    /\ DeviceReturned
    /\ thresholds = TestThresholds
    /\ alast.arg.cpu = 95 /\ alast.arg.memory = 40
    /\ alast.arg.reachability = "reachable"
    /\ Len(alast.returned) = 1
    /\ Objects(alast.returned)[1].metric = "cpu"
    /\ Objects(alast.returned)[1].severity = "critical"

\* C8: evaluate_tunnel applies the two-tier check to tunnel_loss and
\* tunnel_latency: one critical alert when value >= critical, otherwise one
\* warning alert when value >= warning.
C8_TunnelTwoTier ==
    TunnelReturned =>
    LET loss == ThreshOf(thresholds, "tunnel_loss")
        lat  == ThreshOf(thresholds, "tunnel_latency")
    IN  /\ Ordered(loss) =>
              TwoTier(alast.returned, "tunnel_loss", alast.arg.loss,
                      loss["warning"], loss["critical"])
        /\ Ordered(lat) =>
              TwoTier(alast.returned, "tunnel_latency", alast.arg.latency,
                      lat["warning"], lat["critical"])

\* C9: the list evaluate_device returns holds exactly one reachability alert,
\* of severity critical, when the device's reachability is not "reachable",
\* and none when it is, whatever cpu and memory are.
C9_ReachabilityAlert ==
    DeviceReturned =>
    /\ OfMetric(alast.returned, "reachability") =
           OfMetricSeverity(alast.returned, "reachability", "critical")
    /\ Cardinality(OfMetric(alast.returned, "reachability")) =
           (IF alast.arg.reachability # "reachable" THEN 1 ELSE 0)

\* C9 witness: a device of reachability "unknown" with critical cpu: the
\* list holds the cpu alert and the one reachability alert.
C9_Witness ==
    /\ DeviceReturned
    /\ alast.arg.reachability = "unknown"
    /\ alast.arg.cpu = 95
    /\ Len(alast.returned) = 2
    /\ Cardinality(OfMetricSeverity(alast.returned, "reachability", "critical")) = 1
    /\ Cardinality(OfMetric(alast.returned, "cpu")) = 1

\* thresholds in effect for a device metric: configured, else the default
\* of the comparison in evaluate_device
CpuWarning == Get(ThreshOf(thresholds, "cpu"), "warning", 70)
CpuCritical == Get(ThreshOf(thresholds, "cpu"), "critical", 90)
MemoryWarning == Get(ThreshOf(thresholds, "memory"), "warning", 75)
MemoryCritical == Get(ThreshOf(thresholds, "memory"), "critical", 90)

\* a reachable device with cpu and memory below their warning thresholds
BelowWarning(d) ==
    /\ d.reachability = "reachable"
    /\ d.cpu < CpuWarning
    /\ d.memory < MemoryWarning

\* the step is an evaluate_device call that returns the empty list and
\* leaves the collections as they were
QuietStep ==
    /\ ~alast'.raised
    /\ alast'.returned = <<>>
    /\ UNCHANGED <<alerts, active_alerts, alert_history>>

\* C10 as stated: for a reachable device whose cpu and memory are both below
\* their warning thresholds, evaluate_device returns an empty list and leaves
\* the active and history collections unchanged.
C10_Original ==
    [][(alast'.op = "evaluate_device" /\ BelowWarning(alast'.arg)) => QuietStep]_vars

\* C10 amended: the same, for a threshold table whose warning thresholds do
\* not exceed the critical ones (cpu and memory, configured or default).
C10_BelowWarningQuiet ==
    [][(/\ alast'.op = "evaluate_device"
        /\ BelowWarning(alast'.arg)
        /\ CpuWarning <= CpuCritical
        /\ MemoryWarning <= MemoryCritical) => QuietStep]_vars

\* C10 witness: cpu=30, memory=40, reachable, evaluated by a manager that
\* already holds alerts, under the table of the tests: nothing returned.
C10_Witness ==
    /\ DeviceReturned
    /\ thresholds = TestThresholds
    /\ alast.arg.cpu = 30 /\ alast.arg.memory = 40
    /\ alast.arg.reachability = "reachable"
    /\ alast.returned = <<>>
    /\ active_alerts # <<>> /\ alert_history # <<>>

-----------------------------------------------------------------------------
(* The classifier, as get_fabric_health reads it *)

\* the devices the last get_fabric_health call classified
Classified == IF flast = NoCall THEN {} ELSE DOMAIN flast.devices

\* a cpu or memory value at or above a critical threshold, configured or
\* built in
CriticalMetric(d) ==
    \/ d.cpu_percent >= config.cpu_critical \/ d.cpu_percent >= 90
    \/ d.memory_percent >= config.memory_critical \/ d.memory_percent >= 95

\* C11: a device whose reachability is not "reachable" is classified
\* critical whatever its cpu, memory and control connections are, and a
\* device whose reachability is "reachable" is classified critical only
\* when one of its metrics is critical, never by rule 1.
C11_ReachabilityRule ==
    \A i \in Classified :
        LET d == flast.devices[i]
        IN  /\ d.reachability # "reachable" => flast.statuses[i] = "critical"
            /\ (d.reachability = "reachable" /\ flast.statuses[i] = "critical")
                   => CriticalMetric(d)

\* rules 2-5 against the thresholds of a configuration
Rules2to5(cfg, d) ==
    IF d.cpu_percent >= cfg.cpu_critical \/ d.memory_percent >= cfg.memory_critical
        THEN "critical"
    ELSE IF d.cpu_percent >= cfg.cpu_warning \/ d.memory_percent >= cfg.memory_warning
        THEN "warning"
    ELSE IF d.control_connections < d.control_connections_expected THEN "warning"
    ELSE "healthy"

\* C12: the classification of a device is computed against the configured
\* cpu and memory thresholds; the defaults 70/90 and 75/95 apply only when
\* nothing is configured.  Stated for the devices on which rule 1 is
\* silent whether it reads status or reachability.
C12_ConfiguredThresholds ==
    \A i \in Classified :
        LET d == flast.devices[i]
        IN  (d.status = "reachable" /\ d.reachability = "reachable")
                => flast.statuses[i] = Rules2to5(config, d)

\* C13: a reachable device is classified by rules 2-5, first match wins,
\* against the configured thresholds, and every classification is one of
\* healthy, warning and critical.
C13_FirstMatchWins ==
    \A i \in Classified :
        LET d == flast.devices[i]
        IN  /\ flast.statuses[i] \in {"healthy", "warning", "critical"}
            /\ d.reachability = "reachable"
                   => flast.statuses[i] = Rules2to5(config, d)

-----------------------------------------------------------------------------
(* The figures of the fabric summary *)

\* the summary the last get_fabric_health call returned
Summary == flast.health

\* a * 2^k
BShl(a, k) ==
    IF a = <<>> THEN <<>>
    ELSE [i \in 1..(k \div LimbBits) |-> 0] \o BMulSmall(a, 2^(k % LimbBits))

\* a < b
RECURSIVE BLess(_, _)
BLess(a, b) ==
    IF Len(a) # Len(b) THEN Len(a) < Len(b)
    ELSE IF a = <<>> THEN FALSE
    ELSE IF a[Len(a)] # b[Len(b)] THEN a[Len(a)] < b[Len(b)]
    ELSE BLess(SubSeq(a, 1, Len(a) - 1), SubSeq(b, 1, Len(b) - 1))

\* a - b - borrow for a >= b, high zeros kept
RECURSIVE BSubB(_, _, _)
BSubB(a, b, c) ==
    IF a = <<>> THEN <<>>
    ELSE LET d == Head(a) - (IF b = <<>> THEN 0 ELSE Head(b)) - c
         IN  <<d % Base>> \o BSubB(Tail(a), IF b = <<>> THEN <<>> ELSE Tail(b),
                                   IF d < 0 THEN 1 ELSE 0)

\* |a - b|
BDist(a, b) == IF BLess(a, b) THEN BNorm(BSubB(b, a, 0)) ELSE BNorm(BSubB(a, b, 0))

\* the double x, times the natural t, against the natural a: both scaled
\* to naturals by the power of two in x
Scaled(x, t, a) ==
    [product |-> BShl(BMulSmall(x.m, t), IF x.e > 0 THEN x.e ELSE 0),
     exact   |-> BShl(BOfNat(a), IF x.e < 0 THEN -x.e ELSE 0)]

\* x * t = a in exact arithmetic
ExactlyTimes(x, t, a) == Scaled(x, t, a).product = Scaled(x, t, a).exact

\* |x * t - a| <= a * 2^-51 in exact arithmetic
NearlyTimes(x, t, a) ==
    LET sc == Scaled(x, t, a)
    IN  ~BLess(sc.exact, BShl(BDist(sc.product, sc.exact), MantissaBits - 2))

\* the tunnel counts of the summary are the sums of the devices' counts
TunnelCounts ==
    /\ Summary.total_tunnels = SumField(flast.devices, "tunnels_total")
    /\ Summary.tunnels_up = SumField(flast.devices, "tunnels_up")
    /\ Summary.tunnels_down = Summary.total_tunnels - Summary.tunnels_up

\* C19 as stated: sla_compliance x total_tunnels = tunnels_up x 100 when
\* total_tunnels > 0, sla_compliance = 100.0 when total_tunnels = 0, the
\* tunnel counts being the sums of the devices' counts.
C19_Original ==
    flast # NoCall =>
        /\ TunnelCounts
        /\ Summary.total_tunnels > 0 =>
               ExactlyTimes(Summary.sla_compliance, Summary.total_tunnels,
                            Summary.tunnels_up * 100)
        /\ Summary.total_tunnels = 0 => Summary.sla_compliance = FloatOfNat(100)

\* C19: sla_compliance is tunnels_up / total_tunnels x 100 up to the
\* rounding of the two float operations when total_tunnels > 0 (the
\* product sla_compliance x total_tunnels is within tunnels_up x 100 x 2^-51
\* of tunnels_up x 100, and sla_compliance is exactly 100.0 when all tunnels
\* are up), and exactly 100.0 when total_tunnels = 0; the tunnel counts are
\* the sums of the devices' counts and tunnels_down = total - up.
C19_SlaRounded ==
    flast # NoCall =>
        /\ TunnelCounts
        /\ Summary.total_tunnels > 0 =>
               NearlyTimes(Summary.sla_compliance, Summary.total_tunnels,
                           Summary.tunnels_up * 100)
        /\ (Summary.total_tunnels > 0 /\ Summary.tunnels_up = Summary.total_tunnels)
               => Summary.sla_compliance = FloatOfNat(100)
        /\ Summary.total_tunnels = 0 => Summary.sla_compliance = FloatOfNat(100)

\* a summary over one tunnel up of three: the quotient is rounded
C19_Witness ==
    /\ flast # NoCall
    /\ Summary.tunnels_up = 1 /\ Summary.total_tunnels = 3
    /\ Summary.tunnels_down = 2
    /\ ~ExactlyTimes(Summary.sla_compliance, 3, 100)


\* the counts and sla_compliance of a summary: all but last_updated
Figures(h) == [f \in (DOMAIN h) \ {"last_updated"} |-> h[f]]

-----------------------------------------------------------------------------
(* AlertManager: clearing, querying, notifying *)

\* positions of the active list whose alert is not acknowledged
Unacknowledged == {i \in DOMAIN active_alerts : ~alerts[active_alerts[i]].acknowledged}

\* the j-th smallest element of a set of positions
Nth(positions, j) ==
    CHOOSE i \in positions : Cardinality({k \in positions : k < i}) = j - 1

\* C14: clear_acknowledged leaves in the active collection exactly the
\* previously active alerts that are not acknowledged, in their previous
\* order, and leaves the history collection (and every alert) unchanged.
C14_ClearKeepsUnacknowledged ==
    [][alast'.op = "clear_acknowledged"
          => /\ Len(active_alerts') = Cardinality(Unacknowledged)
             /\ \A j \in DOMAIN active_alerts' :
                    active_alerts'[j] = active_alerts[Nth(Unacknowledged, j)]
             /\ UNCHANGED <<alert_history, alerts>>]_vars

\* a clear has removed the older, acknowledged alert and kept the newer one
C14_Witness ==
    /\ alast.op = "clear_acknowledged"
    /\ Len(active_alerts) = 1
    /\ ~alerts[active_alerts[1]].acknowledged
    /\ \E r \in DOMAIN alerts : alerts[r].acknowledged /\ r < active_alerts[1]

\* s is an initial part of t
IsPrefix(s, t) == Len(s) <= Len(t) /\ SubSeq(t, 1, Len(s)) = s

\* C15: no call removes or reorders an entry of the history: the history
\* before a step is an initial part of the history after it.
C15_HistoryAppendOnly == [][IsPrefix(alert_history, alert_history')]_vars

\* a clear has dropped an acknowledged alert from the active collection
\* and the history still holds it
C15_Witness ==
    /\ alast.op = "clear_acknowledged"
    /\ \E i \in DOMAIN alert_history :
           /\ alerts[alert_history[i]].acknowledged
           /\ alert_history[i] \notin Range(active_alerts)

\* two alerts that differ in nothing but the time they were raised
SameButTime(a, b) == [a EXCEPT !.timestamp = 0] = [b EXCEPT !.timestamp = 0]

\* a device for which evaluate_device computes an alert: not reachable, or
\* a cpu or memory value at or above a threshold of its metric
Breaching(d) ==
    \/ d.reachability # "reachable"
    \/ d.cpu >= CpuCritical \/ d.cpu >= CpuWarning
    \/ d.memory >= MemoryCritical \/ d.memory >= MemoryWarning

\* C16: every evaluate_device call that returns adds its alerts as new
\* records behind the ones the active collection holds, whatever it holds:
\* the alerts of a breaching device are never left out because equal
\* alerts are active.
C16_NoDeduplication ==
    [][(alast'.op = "evaluate_device" /\ ~alast'.raised)
          => /\ \A i \in DOMAIN alast'.returned :
                    alast'.returned[i] \notin DOMAIN alerts
             /\ active_alerts' = active_alerts \o alast'.returned
             /\ Breaching(alast'.arg) => alast'.returned # <<>>
             /\ \A r \in Range(active_alerts) :
                    \A i \in DOMAIN alast'.returned :
                        alerts'[r] = alerts[r]]_vars

\* the same breaching device evaluated twice: two records, equal but for
\* their timestamps, both active
C16_Witness ==
    /\ alast.op = "evaluate_device" /\ ~alast.raised
    /\ Len(active_alerts) = 2 /\ Len(alast.returned) = 1
    /\ active_alerts[1] # active_alerts[2]
    /\ SameButTime(alerts[active_alerts[1]], alerts[active_alerts[2]])
    /\ alerts[active_alerts[1]].timestamp < alerts[active_alerts[2]].timestamp

\* the smaller of two numbers
Min(a, b) == IF a <= b THEN a ELSE b

\* how often a reference occurs in a list
Occurrences(refs, r) == Cardinality({i \in DOMAIN refs : refs[i] = r})

\* C17: get_active_alerts(limit) returns min(limit, number of active
\* alerts) dicts of active alerts, each active alert at most once, adjacent
\* ones with non-increasing timestamps, none older than an active alert
\* that was left out, and leaves the active and history collections as
\* they were.
C17_NewestFirstTruncated ==
    [][alast'.op = "get_active_alerts"
          => LET picked == alast'.picked
                 ts(r)  == alerts[r].timestamp
             IN  /\ Len(alast'.returned) = Min(alast'.arg, Len(active_alerts))
                 /\ Len(picked) = Len(alast'.returned)
                 /\ \A i \in DOMAIN picked :
                        /\ alast'.returned[i] = ToDict(alerts[picked[i]])
                        /\ Occurrences(picked, picked[i])
                               <= Occurrences(active_alerts, picked[i])
                 /\ \A i \in 1..(Len(picked) - 1) : ts(picked[i]) >= ts(picked[i + 1])
                 /\ \A r \in Range(active_alerts) :
                        Occurrences(picked, r) < Occurrences(active_alerts, r)
                            => \A i \in DOMAIN picked : ts(picked[i]) >= ts(r)
                 /\ UNCHANGED <<active_alerts, alert_history, alerts>>]_vars

\* limit 1 with an older and a newer alert active: the newer one returned
C17_Witness ==
    /\ alast.op = "get_active_alerts" /\ alast.arg = 1
    /\ Len(active_alerts) = 2 /\ Len(alast.returned) = 1
    /\ alerts[active_alerts[1]].timestamp < alerts[active_alerts[2]].timestamp
    /\ alast.picked = <<active_alerts[2]>>

-----------------------------------------------------------------------------
(* The publisher loop (C21) *)

\* the step is a PublisherWake step: the sleep of background_monitor ends
LoopWakes == th["publisher"].pc = "sleep" /\ th'["publisher"] # th["publisher"]

\* C21: the publisher loop retries on every tick, whatever failed before
\* (a failed initial connection included): whenever its sleep ends while
\* the controller is available, it starts a cycle that fetches from the
\* controller and emits a health update.
C21_LoopRetriesWhenAvailable ==
    [][(LoopWakes /\ mapi.up) => th'["publisher"].pc = "check"]_vars


-----------------------------------------------------------------------------
(* Normalisation of untrusted records (C22) *)

\* C22: a numeric attribute that cannot be coerced to a number becomes
\* zero and nothing is raised, and the other records of the same fetch are
\* still normalised: collect_devices, having fetched from the controller,
\* returns one record per raw record, with cpu 0 where cpu-load is no number.
C22_CoercionFailureIsZero ==
    (clast.op = "collect_devices" /\ "devices" \in clast.fetched /\ capi.up) =>
        /\ Len(clast.returned) = Len(capi.devices)
        /\ \A i \in DOMAIN capi.devices :
              FloatRaises(Get(capi.devices[i], "cpu-load", 0)) => clast.returned[i].cpu = 0


-----------------------------------------------------------------------------
(* Candidate keys and defaults (C23) *)

\* the value of the first key of keys that raw holds, default if it holds none
RECURSIVE FirstPresent(_, _, _)
FirstPresent(raw, keys, default) ==
    IF keys = <<>> THEN default
    ELSE IF Head(keys) \in DOMAIN raw THEN raw[Head(keys)]
    ELSE FirstPresent(raw, Tail(keys), default)

\* device d is raw normalised by candidate lists and defaults: 0 for
\* numbers, "" for strings but nohost for the hostname, "unknown" for
\* reachability and status, 2 for control_connections_expected
NormalisedBy(raw, d, nohost) ==
    /\ d.device_id = FirstPresent(raw, <<"deviceId", "system-ip">>, "")
    /\ d.hostname = FirstPresent(raw, <<"host-name", "hostname">>, nohost)
    /\ d.site_id = (IF "site-id" \in DOMAIN raw THEN ToString(raw["site-id"]) ELSE "")
    /\ d.reachability = FirstPresent(raw, <<"reachability">>, "unknown")
    /\ d.status = FirstPresent(raw, <<"status", "reachability">>, "unknown")
    /\ d.cpu_percent = FirstPresent(raw, <<"cpu-load">>, 0)
    /\ d.memory_percent = 0 /\ d.disk_percent = 0
    /\ d.control_connections = 0 /\ d.tunnels_up = 0 /\ d.tunnels_total = 0
    /\ d.model = FirstPresent(raw, <<"device-model", "model">>, "")
    /\ d.version = "" /\ d.uptime = "" /\ d.board_serial = ""
    /\ d.control_connections_expected = 2

\* the step is a get_fabric_health call that fetches the devices
FetchesDevices ==
    fcalls' = fcalls + 1 /\ ("devices" \notin DOMAIN fcache \/ flast'.expired.devices)

-----------------------------------------------------------------------------
(* Upstream failures at the cached accessors (C24) *)

\* C24: a failure of a data-source call never reaches the caller of a
\* cached accessor as an exception: the accessor whose fetch met the
\* failure gets a value from it, the empty list, and goes on to store and
\* return it, and no request is answered with an exception.
C24_FailureNeverRaised ==
    [][/\ \A t \in Threads :
            (th[t].pc = "fetch" /\ ~mapi.up /\ th'[t] # th[t])
               => (th'[t].pc = "store" /\ th'[t].data = <<>>)
       /\ "raised" \in DOMAIN mlast' => ~mlast'.raised]_vars

\* /api/health was answered while the controller was away: the summary
\* get_fabric_health built from two failed fetches
C24_Witness ==
    /\ connected /\ ~mapi.up
    /\ mlast.op = "api_health"
    /\ mlast.health.total_devices = 0
    /\ mcache_time["devices"] = mnow /\ mcache_time["alarms"] = mnow


-----------------------------------------------------------------------------
(* The collector: force flag, summary, wholesale replacement (C25, C28, C29) *)

\* the controller answers and every record it serves can be normalised
DevicesCollectable == capi.up /\ Appended(capi.devices) = Len(capi.devices)

\* C25: force = true bypasses the freshness check: a forced collect call
\* asks the api whatever the age of the cache, and when the fetch succeeds
\* the cache holds, and the call returns, the newly fetched records.
C25_ForceBypassesFreshness ==
    [][/\ (clast'.op = "collect_devices" /\ clast'.force) =>
            /\ "devices" \in clast'.fetched
            /\ cseen'.devices.called = ctime
            /\ DevicesCollectable =>
                  /\ device_cache' = [i \in DOMAIN capi.devices |->
                                         DeviceMetrics(capi.devices[i], ctime)]
                  /\ clast'.returned = device_cache'
       /\ (clast'.op = "collect_tunnels" /\ clast'.force) =>
            /\ "tunnels" \in clast'.fetched
            /\ cseen'.tunnels.called = ctime
            /\ capi.up =>
                  /\ tunnel_cache' = [i \in DOMAIN capi.tunnels |->
                                         TunnelMetrics(capi.tunnels[i])]
                  /\ clast'.returned = tunnel_cache']_vars

\* a forced collect_tunnels within the TTL of the last device fetch went to
\* the api and the cache holds what it served
C25_Witness ==
    /\ clast.op = "collect_tunnels" /\ clast.force
    /\ last_fetch > 0 /\ IsCacheValid(last_fetch)
    /\ "tunnels" \in clast.fetched
    /\ capi.up /\ capi.tunnels # <<>>
    /\ tunnel_cache = <<TunnelMetrics(RawTunnel1)>>


\* C28: the health summary counts every collected device exactly once:
\* reachable + unreachable = total_devices, total_devices is the length of
\* the collected list and reachable the number of its devices whose
\* reachability is "reachable".
C28_ReachablePartition ==
    clast.op = "get_health_summary" =>
        /\ clast.summary.reachable + clast.summary.unreachable = clast.summary.total_devices
        /\ clast.summary.total_devices = Len(device_cache)
        /\ clast.summary.reachable =
              Cardinality({i \in DOMAIN device_cache : device_cache[i].reachability = "reachable"})

\* a summary over a reachable device and one without a reachability
C28_Witness ==
    /\ clast.op = "get_health_summary"
    /\ Len(device_cache) = 2
    /\ device_cache[1].reachability = "unknown"
    /\ device_cache[2].reachability = "reachable"
    /\ clast.summary.reachable = 1 /\ clast.summary.unreachable = 1


\* the number cpu is what the cpu-load attribute of raw says
CpuOf(raw, cpu) ==
    LET x == Get(raw, "cpu-load", 0)
    IN  IF IsStr(x) THEN ToString(cpu) = x ELSE cpu = x

\* C29: a successful collection supersedes the cache wholesale: the list
\* collect_devices returns after a successful fetch has one record per raw
\* record, in the order of the raw records, with the hostname and the cpu
\* of that record, all of them built in this fetch; it is the new cache.
C29_CacheSupersededWholesale ==
    [][(clast'.op = "collect_devices" /\ "devices" \in clast'.fetched /\ DevicesCollectable) =>
          /\ Len(clast'.returned) = Len(capi.devices)
          /\ \A i \in DOMAIN capi.devices :
                /\ clast'.returned[i].hostname = Get(capi.devices[i], "host-name", "")
                /\ CpuOf(capi.devices[i], clast'.returned[i].cpu)
                /\ clast'.returned[i].last_updated = ctime
          /\ device_cache' = clast'.returned
          /\ last_fetch' = ctime]_vars

\* a later successful collect_devices returned the two records served
C29_Witness ==
    /\ clast.op = "collect_devices" /\ "devices" \in clast.fetched
    /\ capi.up /\ capi.devices = <<RawRouter1, RawRouter2>>
    /\ ctime > Epoch /\ cseen.tunnels.called # Never
    /\ Len(clast.returned) = 2
    /\ clast.returned[1].hostname = "r1" /\ clast.returned[1].cpu = 10
    /\ clast.returned[2].hostname = "r2"


-----------------------------------------------------------------------------
(* The state of a key after a failed refresh (C30) *)

\* the next _get_cached call for key would serve the entry without fetching
Fresh(key) ==
    key \in DOMAIN mcache /\ mnow - Get(mcache_time, key, 0) < EffectiveTtl(TtlArg(key))

\* C30: a failed refresh leaves the key stale, not fresh: when the
\* upstream call of a refresh failed, the accessor call that made it does
\* not leave an entry that the next call for the key would serve without
\* fetching again.
C30_FailedRefreshStaysStale ==
    [][\A t \in Threads : \A key \in Keys :
          (At(t, "stamp", key) /\ th[t].failed /\ th'[t] # th[t]) => ~Fresh(key)']_vars


-----------------------------------------------------------------------------
(* Acknowledging an alarm and looking a device up (C26, C27) *)

\* the step serves an acknowledge request on a connected monitor
Acknowledges == mlast'.op = "api_ack_alarm" /\ "success" \in DOMAIN mlast'

C27_GetDeviceFirstMatch ==
    (mlast.op = "api_device" /\ "demo" \notin DOMAIN mlast) =>
        /\ "raised" \notin DOMAIN mlast
        /\ mlast.devices = mcache["devices"]
        /\ LET hits == {i \in DOMAIN mlast.devices :
                           mlast.devices[i].device_id = mlast.device_id}
           IN  /\ hits = {} => mlast.device = <<>>
               /\ hits # {} =>
                     /\ Len(mlast.device) = 1
                     /\ \E i \in hits : /\ mlast.device[1] = mlast.devices[i]
                                        /\ \A j \in hits : i <= j

\* two cached devices carry the id asked for and the first was returned
C27_Witness ==
    /\ mlast.op = "api_device" /\ "device" \in DOMAIN mlast
    /\ mlast.device_id = "10.1.1.1"
    /\ Len(mlast.devices) = 3
    /\ mlast.devices[3].device_id = "10.1.1.1"
    /\ mlast.device = <<mlast.devices[1]>>
    /\ mlast.devices[1] # mlast.devices[3]


-----------------------------------------------------------------------------
(* The published snapshot and the cache under interleaving (C31, C32) *)

\* C31: every health_update is a point-in-time snapshot: its summary was
\* computed from the device list and the alarm list published with it, so
\* total_devices is the number of published devices and total_alarms the
\* number of published alarms.
C31_SnapshotConsistent ==
    mlast.op = "health_update" =>
        /\ mlast.health.total_devices = Len(mlast.devices)
        /\ mlast.health.total_alarms = Len(mlast.alarms)


\* C32: the entry of a key is consistent under every interleaving: the
\* timestamp an accessor call writes belongs to the value the entry holds,
\* the one that call's own fetch produced.
C32_TimestampOfStoredValue ==
    [][\A t \in Threads : \A key \in Keys :
          (At(t, "stamp", key) /\ th'[t] # th[t]) => mcache[key] = th[t].data]_vars


-----------------------------------------------------------------------------
(* Threshold tables of any shape (C33) *)

\* C33: evaluate_device and evaluate_tunnel never raise because of the
\* shape of the threshold table: with a metric entry or a sub-key missing
\* the built-in default is used for the comparison and for the alert, and
\* the call returns its list.
C33_TableShapeNeverRaises ==
    alast.op \in {"evaluate_device", "evaluate_tunnel"} => ~alast.raised


-----------------------------------------------------------------------------
(* The counts of the fabric summary (C34–C36) *)

\* C34: the classification counts partition the devices:
\* healthy_devices + warning_devices + critical_devices = total_devices,
\* and total_devices is the number of devices summarised.
C34_StatusCountsPartition ==
    flast # NoCall =>
        /\ Summary.healthy_devices + Summary.warning_devices + Summary.critical_devices
              = Summary.total_devices
        /\ Summary.total_devices = Len(flast.devices)

\* a summary of two devices of different classes
C34_Witness ==
    /\ flast # NoCall
    /\ Summary.total_devices = 2
    /\ Summary.healthy_devices = 1 /\ Summary.critical_devices = 1
    /\ Summary.warning_devices = 0


\* C35: in every fabric summary the devices counted as unreachable are
\* counted as critical too: unreachable_devices <= critical_devices, and no
\* device of the list that is counted unreachable has the health status
\* healthy or warning.
C35_UnreachableWithinCritical ==
    flast # NoCall =>
        /\ Summary.unreachable_devices <= Summary.critical_devices
        /\ \A i \in DOMAIN flast.devices :
               flast.devices[i].reachability # "reachable"
                   => HealthStatus(flast.devices[i]) = "critical"


\* a double x, as m * 2^e, is at most the natural n
FloatAtMost(x, n) == ~BLess(Scaled(x, 1, n).exact, Scaled(x, 1, n).product)

\* C36: for every upstream input the tunnel figures of the summary stay in
\* range: 0 <= tunnels_up <= total_tunnels, tunnels_down >= 0 and
\* 0 <= sla_compliance <= 100, every device record having
\* tunnels_up <= tunnels_total.
C36_TunnelFiguresInRange ==
    flast # NoCall =>
        /\ \A i \in DOMAIN flast.devices :
               flast.devices[i].tunnels_up <= flast.devices[i].tunnels_total
        /\ 0 <= Summary.tunnels_up /\ Summary.tunnels_up <= Summary.total_tunnels
        /\ Summary.tunnels_down >= 0
        /\ FloatAtMost(Summary.sla_compliance, 100)


-----------------------------------------------------------------------------
(* The index of an acknowledgement (C37) *)

\* C37: the index acknowledge_alert accepts identifies the alert a caller
\* sees: acknowledge_alert(i) sets the flag of the alert at position i of
\* the list get_active_alerts returns at that moment, whatever evaluations
\* and clears came before, and sets nothing else; an index outside the
\* active collection changes nothing and raises nothing.
C37_IndexIsShownPosition ==
    [][alast'.op = "acknowledge_alert"
          => LET shown == SortedByTimestamp(active_alerts, alerts)
                 i     == alast'.arg
             IN  /\ ~alast'.raised
                 /\ UNCHANGED <<active_alerts, alert_history>>
                 /\ IF 0 <= i /\ i < Len(shown)
                    THEN alerts' = [alerts EXCEPT ![shown[i + 1]].acknowledged = TRUE]
                    ELSE alerts' = alerts]_vars


-----------------------------------------------------------------------------
(* A TTL of zero (C38) *)

\* The ttl arguments of a _get_cached call: None, 0 and the 15 seconds of
\* get_alarms.
TtlArgs == {<<>>, <<0>>, <<AlarmsTtl>>}

\* _get_cached(key, fetcher, ttl), one whole call of one caller
GetCached(key, ttl) ==
    /\ UNCHANGED <<avars, cvars, fvars>>
    /\ LET effective == EffectiveTtl(ttl)
           data      == Fetcher(key, mapi, mnow)
       IN  IF key \in DOMAIN mcache /\ mnow - Get(mcache_time, key, 0) < effective
           THEN /\ mlast' = [op |-> "_get_cached", key |-> key, ttl |-> ttl,
                             fetched |-> FALSE, returned |-> mcache[key]]
                /\ UNCHANGED <<mcache, mcache_time>>
           ELSE /\ mcache' = (key :> data) @@ mcache
                /\ mcache_time' = (key :> mnow) @@ mcache_time
                /\ mlast' = [op |-> "_get_cached", key |-> key, ttl |-> ttl,
                             fetched |-> TRUE, returned |-> data]
    /\ UNCHANGED <<connected, mnow, mapi, th>>

\* calls of _get_cached by one caller, while time passes and the
\* controller comes and goes
TtlNext ==
    \/ \E key \in Keys : \E ttl \in TtlArgs : GetCached(key, ttl)
    \/ MonitorTick
    \/ FabricChange

SpecTtl == Init /\ [][TtlNext]_vars

\* C38: a TTL of 0 means never fresh: a _get_cached call with ttl = 0
\* invokes the fetch, whatever the age of the entry; it does not fall back
\* to another freshness window.
C38_ZeroTtlNeverFresh ==
    (mlast.op = "_get_cached" /\ mlast.ttl = <<0>>) => mlast.fetched

=============================================================================
